---------------------------- MODULE Spec2Model ----------------------------
(***************************************************************************)
(* Document ingestion pipeline of the Personal Finance Assistant backend   *)
(* (routes/upload.js): receipt OCR text, CSV rows and PDF statement text   *)
(* are turned into transaction records.  Further sections model the        *)
(* requests that store transactions, the upload page, the custom           *)
(* categories, the router of /api/transactions and the deletion of an      *)
(* account.                                                                *)
(*                                                                         *)
(* Text is modelled at character level: a string is a sequence of          *)
(* one-character strings, a regular expression is a sequence of quantified *)
(* character classes matched with JavaScript's backtracking priorities.    *)
(***************************************************************************)
EXTENDS Integers, Sequences, FiniteSets, TLC

(***************************************************************************)
(* Characters                                                              *)
(***************************************************************************)
\* the rupee sign U+20B9, one character of the alphabet
Rupee == "rupee"

Digit == {"0","1","2","3","4","5","6","7","8","9"}

LowerAlpha == {"a","b","c","d","e","f","g","h","i","j","k","l","m",
               "n","o","p","q","r","s","t","u","v","w","x","y","z"}

UpperAlpha == {"A","B","C","D","E","F","G","H","I","J","K","L","M",
               "N","O","P","Q","R","S","T","U","V","W","X","Y","Z"}

\* \s within one line
Space == {" ", "\t"}

Symbol == {"$", ",", ".", "/", "-", "+", ":", "&", "#", Rupee}

\* . : every character but a line terminator (lines hold none)
AnyChar == Digit \cup LowerAlpha \cup UpperAlpha \cup Space \cup Symbol

LowerOf == [c \in UpperAlpha |->
  CASE c = "A" -> "a" [] c = "B" -> "b" [] c = "C" -> "c" [] c = "D" -> "d"
    [] c = "E" -> "e" [] c = "F" -> "f" [] c = "G" -> "g" [] c = "H" -> "h"
    [] c = "I" -> "i" [] c = "J" -> "j" [] c = "K" -> "k" [] c = "L" -> "l"
    [] c = "M" -> "m" [] c = "N" -> "n" [] c = "O" -> "o" [] c = "P" -> "p"
    [] c = "Q" -> "q" [] c = "R" -> "r" [] c = "S" -> "s" [] c = "T" -> "t"
    [] c = "U" -> "u" [] c = "V" -> "v" [] c = "W" -> "w" [] c = "X" -> "x"
    [] c = "Y" -> "y" [] c = "Z" -> "z"]

DigitVal == [c \in Digit |->
  CASE c = "0" -> 0 [] c = "1" -> 1 [] c = "2" -> 2 [] c = "3" -> 3
    [] c = "4" -> 4 [] c = "5" -> 5 [] c = "6" -> 6 [] c = "7" -> 7
    [] c = "8" -> 8 [] c = "9" -> 9]

(***************************************************************************)
(* String.prototype helpers                                                *)
(***************************************************************************)
LowerChar(c) == IF c \in UpperAlpha THEN LowerOf[c] ELSE c

\* String.prototype.toLowerCase
ToLowerCase(s) == [i \in 1..Len(s) |-> LowerChar(s[i])]

\* does needle occur in s at position p
OccursAt(s, needle, p) ==
  /\ p + Len(needle) - 1 <= Len(s)
  /\ \A j \in 1..Len(needle) : s[p + j - 1] = needle[j]

\* String.prototype.includes
Includes(s, needle) == \E p \in 1..(Len(s) + 1) : OccursAt(s, needle, p)

\* String.prototype.endsWith
EndsWith(s, suffix) ==
  /\ Len(suffix) <= Len(s)
  /\ OccursAt(s, suffix, Len(s) - Len(suffix) + 1)

\* String.prototype.startsWith
StartsWith(s, prefix) == OccursAt(s, prefix, 1)

RECURSIVE SkipSpace(_, _)
\* first position at or after p that holds no white space
SkipSpace(s, p) ==
  IF p <= Len(s) /\ s[p] \in Space THEN SkipSpace(s, p + 1) ELSE p

RECURSIVE SkipSpaceBack(_, _)
\* last position at or before p that holds no white space (0 when none)
SkipSpaceBack(s, p) ==
  IF p >= 1 /\ s[p] \in Space THEN SkipSpaceBack(s, p - 1) ELSE p

\* String.prototype.trim
Trim(s) == SubSeq(s, SkipSpace(s, 1), SkipSpaceBack(s, Len(s)))

\* String.prototype.substring(0, n)
Substring0(s, n) == SubSeq(s, 1, IF Len(s) < n THEN Len(s) ELSE n)

RECURSIVE RemoveChars(_, _)
\* String.prototype.replace(/[...]/g, '') for a character class
RemoveChars(s, cls) ==
  IF s = <<>> THEN <<>>
  ELSE IF Head(s) \in cls THEN RemoveChars(Tail(s), cls)
  ELSE <<Head(s)>> \o RemoveChars(Tail(s), cls)

(***************************************************************************)
(* Regular expressions                                                     *)
(*                                                                         *)
(* An item is a character class with a quantifier {min,max}, greedy or     *)
(* lazy; a pattern is a sequence of items with its capture groups given as *)
(* <<first item, last item>>.  None of the program's patterns uses         *)
(* alternation or back references.                                         *)
(***************************************************************************)
One(cls) == [cls |-> cls, min |-> 1, max |-> 1, lazy |-> FALSE]
Opt(cls) == [cls |-> cls, min |-> 0, max |-> 1, lazy |-> FALSE]
\* max -1: no upper bound
Star(cls) == [cls |-> cls, min |-> 0, max |-> -1, lazy |-> FALSE]
Plus(cls) == [cls |-> cls, min |-> 1, max |-> -1, lazy |-> FALSE]
PlusLazy(cls) == [cls |-> cls, min |-> 1, max |-> -1, lazy |-> TRUE]
Rep(cls, lo, hi) == [cls |-> cls, min |-> lo, max |-> hi, lazy |-> FALSE]

\* a literal under the i flag: each letter in either case
LitI(s) == [i \in 1..Len(s) |->
  One({s[i]} \cup {c \in UpperAlpha : LowerOf[c] = s[i]})]

\* a literal, case sensitive
Lit(s) == [i \in 1..Len(s) |-> One({s[i]})]

RECURSIVE RunLength(_, _, _, _)
\* how many characters of cls stand at s[p..], at most max (no limit
\* when max is negative)
RunLength(s, cls, p, max) ==
  IF max = 0 \/ p > Len(s) \/ s[p] \notin cls THEN 0
  ELSE 1 + RunLength(s, cls, p + 1, max - 1)

RECURSIVE MatchFrom(_, _, _, _)
RECURSIVE TryCount(_, _, _, _, _, _, _)
\* the rest of the pattern matched (rest) after c repetitions of item k at
\* p, or the next repetition count is tried
TryRest(items, s, k, p, c, last, step, rest) ==
  IF rest # <<>> THEN <<p>> \o rest
  ELSE IF c = last THEN <<>>
  ELSE TryCount(items, s, k, p, c + step, last, step)

TryCount(items, s, k, p, c, last, step) ==
  TryRest(items, s, k, p, c, last, step, MatchFrom(items, s, k + 1, p + c))

\* item it, of which avail repetitions stand at p: a greedy item tries its
\* longest repetition first, a lazy one its shortest
MatchItem(items, s, k, p, it, avail) ==
  IF avail < it.min THEN <<>>
  ELSE IF it.lazy THEN TryCount(items, s, k, p, it.min, avail, 1)
  ELSE TryCount(items, s, k, p, avail, it.min, -1)

\* items k.. matched at position p: the start of each item and the end of
\* the match, or <<>> when there is no match
MatchFrom(items, s, k, p) ==
  IF k > Len(items) THEN <<p>>
  ELSE MatchItem(items, s, k, p, items[k],
                 RunLength(s, items[k].cls, p, items[k].max))

RECURSIVE SearchFrom(_, _, _)
FirstMatch(items, s, p, m) ==
  IF m # <<>> THEN m ELSE SearchFrom(items, s, p + 1)

\* leftmost match starting at or after p (<<>> when none)
SearchFrom(items, s, p) ==
  IF p > Len(s) + 1 THEN <<>>
  ELSE FirstMatch(items, s, p, MatchFrom(items, s, 1, p))

\* the match m (item boundaries) as exec returns it
Captures(re, s, m) ==
  IF m = <<>> THEN <<>>
  ELSE <<SubSeq(s, m[1], m[Len(m)] - 1)>> \o
       [g \in 1..Len(re.groups) |->
          SubSeq(s, m[re.groups[g][1]], m[re.groups[g][2] + 1] - 1)]

\* RegExp.prototype.exec of a pattern without the g flag: <<>> for null,
\* else <<whole match, group 1, ...>>
Exec(re, s) == Captures(re, s, SearchFrom(re.items, s, 1))

RECURSIVE AllMatches(_, _, _)
NextMatches(items, s, m) ==
  IF m = <<>> THEN <<>>
  ELSE <<SubSeq(s, m[1], m[Len(m)] - 1)>> \o
       AllMatches(items, s, IF m[Len(m)] = m[1] THEN m[1] + 1 ELSE m[Len(m)])

\* every successive whole match from position p on
AllMatches(items, s, p) == NextMatches(items, s, SearchFrom(items, s, p))

\* the value read where an object has no such property or an array no such
\* index; no string equals it
Undefined == <<"undefined">>

\* match[i] of a match result
MatchIndex(m, i) == IF i + 1 <= Len(m) THEN m[i + 1] ELSE Undefined

\* String.prototype.match: with the g flag the array of all whole matches
\* (no capture groups), without it the exec result
StringMatch(s, re) ==
  IF re.global THEN AllMatches(re.items, s, 1) ELSE Exec(re, s)

(***************************************************************************)
(* Numbers                                                                 *)
(*                                                                         *)
(* A finite number is the decimal m / 10^e in lowest form (no trailing     *)
(* zero in m when e > 0), so that equal values are equal records.  The     *)
(* inputs are short decimals, on which the program's doubles and these     *)
(* decimals order and compare alike.                                       *)
(***************************************************************************)
NaN == [k |-> "nan"]
Infinity == [k |-> "inf", neg |-> FALSE]
NegInfinity == [k |-> "inf", neg |-> TRUE]

RECURSIVE Pow10(_)
Pow10(n) == IF n = 0 THEN 1 ELSE 10 * Pow10(n - 1)

RECURSIVE Num(_, _)
\* the number m / 10^e
Num(m, e) ==
  IF e > 0 /\ m % 10 = 0 THEN Num(m \div 10, e - 1)
  ELSE [k |-> "num", m |-> m, e |-> e]

Zero == Num(0, 0)

\* a > b of two numbers: false when either is NaN
Gt(a, b) ==
  CASE a.k = "nan" \/ b.k = "nan" -> FALSE
    [] a.k = "inf" -> ~a.neg /\ b # a
    [] b.k = "inf" -> b.neg
    [] OTHER -> a.m * Pow10(b.e) > b.m * Pow10(a.e)

\* Math.abs
MathAbs(a) ==
  CASE a.k = "nan" -> NaN
    [] a.k = "inf" -> Infinity
    [] OTHER -> IF a.m < 0 THEN [a EXCEPT !.m = -a.m] ELSE a

\* ToBoolean of a number: NaN and 0 are falsy
Truthy(a) == a.k # "nan" /\ a # Zero

RECURSIVE DigitsValue(_, _, _, _)
\* the value of the digits s[p..q], after acc
DigitsValue(s, p, q, acc) ==
  IF p > q THEN acc ELSE DigitsValue(s, p + 1, q, 10 * acc + DigitVal[s[p]])

CharAt(s, p) == IF p >= 1 /\ p <= Len(s) THEN s[p] ELSE ""

\* the exponent part at p3 (after the nf fraction digits of mantissa mant):
\* an e, an optional sign and ne >= 1 digits of value x
ParseExponent(mant, nf, minus, ne, x) ==
  IF ne = 0 THEN Num(mant, nf)
  ELSE IF minus THEN Num(mant, nf + x)
  ELSE IF x >= nf THEN Num(mant * Pow10(x - nf), 0)
  ELSE Num(mant, nf - x)

\* the digits of the exponent start at p4 when s[p3] is an e
ParseExponentAt(s, mant, nf, p3, p4) ==
  ParseExponent(mant, nf, CharAt(s, p3 + 1) = "-",
                IF CharAt(s, p3) \in {"e", "E"}
                THEN RunLength(s, Digit, p4, -1) ELSE 0,
                DigitsValue(s, p4, p4 + RunLength(s, Digit, p4, -1) - 1, 0))

\* the mantissa's ni integer and nf fraction digits end before p3
ParseMantissa(s, neg, p1, ni, nf, p3) ==
  IF ni = 0 /\ nf = 0 THEN NaN
  ELSE ParseExponentAt(
         s,
         (IF neg THEN -1 ELSE 1)
           * DigitsValue(s, p1 + ni + 1, p1 + ni + nf,
                         DigitsValue(s, p1, p1 + ni - 1, 0)),
         nf, p3,
         IF CharAt(s, p3 + 1) \in {"+", "-"} THEN p3 + 2 ELSE p3 + 1)

\* nf fraction digits after the dot that follows the ni integer digits
ParseFraction(s, neg, p1, ni, nf) ==
  ParseMantissa(s, neg, p1, ni, nf,
                IF CharAt(s, p1 + ni) = "." THEN p1 + ni + 1 + nf
                ELSE p1 + ni)

\* ni integer digits at p1
ParseDigits(s, neg, p1, ni) ==
  ParseFraction(s, neg, p1, ni,
                IF CharAt(s, p1 + ni) = "."
                THEN RunLength(s, Digit, p1 + ni + 1, -1) ELSE 0)

\* the literal after the sign, at p1
ParseUnsigned(s, neg, p1) ==
  IF OccursAt(s, <<"I","n","f","i","n","i","t","y">>, p1)
  THEN (IF neg THEN NegInfinity ELSE Infinity)
  ELSE ParseDigits(s, neg, p1, RunLength(s, Digit, p1, -1))

ParseSigned(s, p0) ==
  ParseUnsigned(s, CharAt(s, p0) = "-",
                IF CharAt(s, p0) \in {"+", "-"} THEN p0 + 1 ELSE p0)

\* parseFloat: leading white space is skipped, then the longest prefix that
\* is a decimal literal (sign, Infinity, digits, fraction, exponent) is
\* converted; NaN when there is none
ParseFloat(s) == ParseSigned(s, SkipSpace(s, 1))

(***************************************************************************)
(* Dates                                                                   *)
(*                                                                         *)
(* new Date(string) as the runtime (V8) parses it, for the strings the     *)
(* program hands it here: digits, '/', '-', white space and words that are *)
(* no date keyword.  A string of the exact form YYYY-MM-DD is an ISO date  *)
(* (UTC); any other goes through the legacy parser (local time): up to     *)
(* three numbers, a '-' right after a number is a separator, month/day/    *)
(* year order unless the first of three numbers cannot be a day, two-digit *)
(* years are 20xx below 50 and 19xx from 50 on.  A day of 29..31 beyond    *)
(* the month's end rolls over into the next month.                         *)
(***************************************************************************)
InvalidDate == [k |-> "invalid"]

\* new Date(): the clock reading t
DateNow(t) == [k |-> "now", t |-> t]

\* isNaN(date.getTime())
IsInvalidDate(d) == d.k = "invalid"

IsLeap(y) == (y % 4 = 0 /\ y % 100 # 0) \/ y % 400 = 0

DaysInMonth(y, m) ==
  CASE m \in {4, 6, 9, 11} -> 30
    [] m = 2 -> (IF IsLeap(y) THEN 29 ELSE 28)
    [] OTHER -> 31

\* day d of a month of dim days: beyond its end, a day of the next month
RollOver(y, m, d, dim, zone) ==
  IF d > dim
  THEN [k |-> "date", y |-> y, m |-> m + 1, d |-> d - dim, zone |-> zone]
  ELSE [k |-> "date", y |-> y, m |-> m, d |-> d, zone |-> zone]

\* the calendar day of year y, month m (1..12), day d (1..31)
MakeDay(y, m, d, zone) == RollOver(y, m, d, DaysInMonth(y, m), zone)

IsMonth(n) == n >= 1 /\ n <= 12
IsDay(n) == n >= 1 /\ n <= 31

\* the exact form YYYY-MM-DD with a month and a day in range
IsIsoDate(s) ==
  /\ Len(s) = 10
  /\ \A i \in {1, 2, 3, 4, 6, 7, 9, 10} : s[i] \in Digit
  /\ s[5] = "-" /\ s[8] = "-"
  /\ IsMonth(DigitsValue(s, 6, 7, 0))
  /\ IsDay(DigitsValue(s, 9, 10, 0))

\* the legacy scan failed
BadScan == <<-1>>

RECURSIVE LegacyScan(_, _, _, _)
\* a number of n digits at p: one more component, and a '-' right after it
\* is skipped
ScanNumber(s, p, comps, n) ==
  IF Len(comps) = 3 THEN BadScan
  ELSE LegacyScan(s, IF CharAt(s, p + n) = "-" THEN p + n + 1 ELSE p + n,
                  Append(comps, DigitsValue(s, p, p + n - 1, 0)), TRUE)

\* a word of n letters at p that is no date keyword: an error after a
\* number, and when a number follows it directly
ScanWord(s, p, comps, hasNum, n) ==
  IF hasNum \/ CharAt(s, p + n) \in Digit THEN BadScan
  ELSE LegacyScan(s, p + n, comps, hasNum)

\* the numbers the legacy parser collects from s[p..], or BadScan
LegacyScan(s, p, comps, hasNum) ==
  IF p > Len(s) THEN comps
  ELSE IF s[p] \in Digit
  THEN ScanNumber(s, p, comps, RunLength(s, Digit, p, -1))
  ELSE IF s[p] \in LowerAlpha \cup UpperAlpha
  THEN ScanWord(s, p, comps, hasNum,
                RunLength(s, LowerAlpha \cup UpperAlpha, p, -1))
  ELSE IF s[p] \in {"+", "-"} /\ hasNum THEN BadScan
  ELSE LegacyScan(s, p + 1, comps, hasNum)

\* two-digit years: 20xx below 50, 19xx from 50 on
FullYear(y) == IF y <= 49 THEN y + 2000 ELSE IF y <= 99 THEN y + 1900 ELSE y

\* the date of year y, month m, day d when these are in range
ComposeDay(y, m, d) ==
  IF IsMonth(m) /\ IsDay(d) THEN MakeDay(FullYear(y), m, d, "local")
  ELSE InvalidDate

\* DayComposer::Write of the legacy parser: year first when the first of
\* the three numbers cannot be a day, else month, day, year
LegacyDate(comps) ==
  IF comps = BadScan \/ Len(comps) < 3 THEN InvalidDate
  ELSE IF ~IsDay(comps[1]) THEN ComposeDay(comps[1], comps[2], comps[3])
  ELSE ComposeDay(comps[3], comps[1], comps[2])

\* new Date(s)
DateParse(s) ==
  IF IsIsoDate(s)
  THEN MakeDay(DigitsValue(s, 1, 4, 0), DigitsValue(s, 6, 7, 0),
               DigitsValue(s, 9, 10, 0), "utc")
  ELSE LegacyDate(LegacyScan(s, 1, <<>>, FALSE))

\* ToBoolean of a string or undefined
TruthyStr(v) == v # Undefined /\ v # <<>>

\* a || b
OrElse(a, b) == IF TruthyStr(a) THEN a ELSE b

(***************************************************************************)
(* The pattern tables                                                      *)
(***************************************************************************)
RECURSIVE PartsItems(_)
PartsItems(parts) ==
  IF parts = <<>> THEN <<>>
  ELSE Head(parts).items \o PartsItems(Tail(parts))

RECURSIVE PartsGroups(_, _)
PartsGroups(parts, offset) ==
  IF parts = <<>> THEN <<>>
  ELSE (IF Head(parts).cap
        THEN << <<offset + 1, offset + Len(Head(parts).items)>> >>
        ELSE <<>>)
       \o PartsGroups(Tail(parts), offset + Len(Head(parts).items))

\* a capture group, and items outside any group
Cap(items) == [items |-> items, cap |-> TRUE]
NoCap(items) == [items |-> items, cap |-> FALSE]

Pattern(parts, global) ==
  [items |-> PartsItems(parts), groups |-> PartsGroups(parts, 0),
   global |-> global]

\* [0-9]+\.?[0-9]*
Decimal == <<Plus(Digit), Opt({"."}), Star(Digit)>>

\* [:\s]*\$?
LabelSep == <<Star({":"} \cup Space), Opt({"$"})>>

totalPatterns == <<
  \* /total[:\s]*\$?([0-9]+\.?[0-9]*)/i
  Pattern(<<NoCap(LitI(<<"t","o","t","a","l">>) \o LabelSep), Cap(Decimal)>>, FALSE),
  \* /amount[:\s]*\$?([0-9]+\.?[0-9]*)/i
  Pattern(<<NoCap(LitI(<<"a","m","o","u","n","t">>) \o LabelSep), Cap(Decimal)>>, FALSE),
  \* /\$([0-9]+\.?[0-9]*)\s*total/i
  Pattern(<<NoCap(<<One({"$"})>>), Cap(Decimal),
            NoCap(<<Star(Space)>> \o LitI(<<"t","o","t","a","l">>))>>, FALSE),
  \* /\$([0-9]+\.[0-9]{2})/g
  Pattern(<<NoCap(<<One({"$"})>>),
            Cap(<<Plus(Digit), One({"."}), Rep(Digit, 2, 2)>>)>>, TRUE),
  \* /grand\s*total[:\s]*\$?([0-9]+\.?[0-9]*)/i
  Pattern(<<NoCap(LitI(<<"g","r","a","n","d">>) \o <<Star(Space)>> \o LitI(<<"t","o","t","a","l">>)
                  \o LabelSep), Cap(Decimal)>>, FALSE),
  \* /final\s*total[:\s]*\$?([0-9]+\.?[0-9]*)/i
  Pattern(<<NoCap(LitI(<<"f","i","n","a","l">>) \o <<Star(Space)>> \o LitI(<<"t","o","t","a","l">>)
                  \o LabelSep), Cap(Decimal)>>, FALSE) >>

\* \d{1,2}<sep>\d{1,2}<sep>\d{n}
DayFirst(sep, n) ==
  <<Rep(Digit, 1, 2), One({sep}), Rep(Digit, 1, 2), One({sep}),
    Rep(Digit, n, n)>>

\* \d{4}-\d{1,2}-\d{1,2}
YearFirst ==
  <<Rep(Digit, 4, 4), One({"-"}), Rep(Digit, 1, 2), One({"-"}),
    Rep(Digit, 1, 2)>>

datePatterns == <<
  Pattern(<<Cap(DayFirst("/", 4))>>, FALSE),
  Pattern(<<Cap(DayFirst("-", 4))>>, FALSE),
  Pattern(<<Cap(YearFirst)>>, FALSE),
  Pattern(<<Cap(DayFirst("/", 2))>>, FALSE),
  Pattern(<<Cap(DayFirst("-", 2))>>, FALSE) >>

\* /(.+?)\s+\$?([0-9]+\.?[0-9]*)/
itemPattern ==
  Pattern(<<Cap(<<PlusLazy(AnyChar)>>), NoCap(<<Plus(Space), Opt({"$"})>>),
            Cap(Decimal)>>, FALSE)

dateFormats == <<
  Pattern(<<Cap(YearFirst)>>, FALSE),
  Pattern(<<Cap(DayFirst("/", 4))>>, FALSE),
  Pattern(<<Cap(DayFirst("-", 4))>>, FALSE) >>

\* \s+(.+?)\s+([+-]?\$?₹?[0-9,]+\.?[0-9]*) after a date
TransactionTail ==
  <<NoCap(<<Plus(Space)>>), Cap(<<PlusLazy(AnyChar)>>),
    NoCap(<<Plus(Space)>>),
    Cap(<<Opt({"+", "-"}), Opt({"$"}), Opt({Rupee}),
          Plus(Digit \cup {","}), Opt({"."}), Star(Digit)>>)>>

transactionPatterns == <<
  Pattern(<<Cap(DayFirst("/", 4))>> \o TransactionTail, FALSE),
  Pattern(<<Cap(DayFirst("-", 4))>> \o TransactionTail, FALSE),
  Pattern(<<Cap(YearFirst)>> \o TransactionTail, FALSE) >>

\* the class of replace(/[$,₹]/g, '')
CurrencyChars == {"$", ",", Rupee}

(***************************************************************************)
(* determineCategory                                                       *)
(***************************************************************************)
IncludesAny(name, words) == \E w \in words : Includes(name, w)

\* determineCategory with the streaming rule tested before the shopping rule
determineCategoryStreamingFirst(merchantName) ==
  LET name == ToLowerCase(merchantName)
  IN IF IncludesAny(name, {<<"g","r","o","c","e","r","y">>, <<"f","o","o","d">>, <<"s","u","p","e","r","m","a","r","k","e","t">>,
                           <<"m","a","r","k","e","t">>})
     THEN <<"F","o","o","d"," ","&"," ","D","i","n","i","n","g">>
     ELSE IF IncludesAny(name, {<<"g","a","s">>, <<"f","u","e","l">>, <<"s","h","e","l","l">>, <<"e","x","x","o","n">>})
     THEN <<"T","r","a","n","s","p","o","r","t","a","t","i","o","n">>
     ELSE IF IncludesAny(name, {<<"n","e","t","f","l","i","x">>, <<"s","p","o","t","i","f","y">>, <<"h","u","l","u">>,
                                <<"a","m","a","z","o","n"," ","p","r","i","m","e">>})
     THEN <<"E","n","t","e","r","t","a","i","n","m","e","n","t">>
     ELSE IF IncludesAny(name, {<<"a","m","a","z","o","n">>, <<"w","a","l","m","a","r","t">>, <<"t","a","r","g","e","t">>,
                                <<"c","o","s","t","c","o">>})
     THEN <<"S","h","o","p","p","i","n","g">>
     ELSE IF IncludesAny(name, {<<"r","e","s","t","a","u","r","a","n","t">>, <<"c","a","f","e">>, <<"p","i","z","z","a">>,
                                <<"b","u","r","g","e","r">>})
     THEN <<"F","o","o","d"," ","&"," ","D","i","n","i","n","g">>
     ELSE IF IncludesAny(name, {<<"u","b","e","r">>, <<"l","y","f","t">>, <<"t","a","x","i">>})
     THEN <<"T","r","a","n","s","p","o","r","t","a","t","i","o","n">>
     ELSE IF IncludesAny(name, {<<"g","y","m">>, <<"f","i","t","n","e","s","s">>, <<"p","l","a","n","e","t"," ","f","i","t","n","e","s","s">>})
     THEN <<"H","e","a","l","t","h"," ","&"," ","F","i","t","n","e","s","s">>
     ELSE <<"O","t","h","e","r">>

determineCategory(merchantName) ==
  LET name == ToLowerCase(merchantName)
  IN IF IncludesAny(name, {<<"g","r","o","c","e","r","y">>, <<"f","o","o","d">>, <<"s","u","p","e","r","m","a","r","k","e","t">>,
                           <<"m","a","r","k","e","t">>})
     THEN <<"F","o","o","d"," ","&"," ","D","i","n","i","n","g">>
     ELSE IF IncludesAny(name, {<<"g","a","s">>, <<"f","u","e","l">>, <<"s","h","e","l","l">>, <<"e","x","x","o","n">>})
     THEN <<"T","r","a","n","s","p","o","r","t","a","t","i","o","n">>
     ELSE IF IncludesAny(name, {<<"a","m","a","z","o","n">>, <<"w","a","l","m","a","r","t">>, <<"t","a","r","g","e","t">>,
                                <<"c","o","s","t","c","o">>})
     THEN <<"S","h","o","p","p","i","n","g">>
     ELSE IF IncludesAny(name, {<<"r","e","s","t","a","u","r","a","n","t">>, <<"c","a","f","e">>, <<"p","i","z","z","a">>,
                                <<"b","u","r","g","e","r">>})
     THEN <<"F","o","o","d"," ","&"," ","D","i","n","i","n","g">>
     ELSE IF IncludesAny(name, {<<"u","b","e","r">>, <<"l","y","f","t">>, <<"t","a","x","i">>})
     THEN <<"T","r","a","n","s","p","o","r","t","a","t","i","o","n">>
     ELSE IF IncludesAny(name, {<<"n","e","t","f","l","i","x">>, <<"s","p","o","t","i","f","y">>, <<"h","u","l","u">>,
                                <<"a","m","a","z","o","n"," ","p","r","i","m","e">>})
     THEN <<"E","n","t","e","r","t","a","i","n","m","e","n","t">>
     ELSE IF IncludesAny(name, {<<"g","y","m">>, <<"f","i","t","n","e","s","s">>, <<"p","l","a","n","e","t"," ","f","i","t","n","e","s","s">>})
     THEN <<"H","e","a","l","t","h"," ","&"," ","F","i","t","n","e","s","s">>
     ELSE <<"O","t","h","e","r">>

(***************************************************************************)
(* extractReceiptData: the OCR text is given as its lines (text.split).    *)
(***************************************************************************)
\* text.split('\n').map(line => line.trim()).filter(line => line.length > 0)
CleanLines(text) ==
  SelectSeq([i \in 1..Len(text) |-> Trim(text[i])], LAMBDA l : Len(l) > 0)

\* if (amount > total) total = amount
TotalUpdate(amount, total) == IF Gt(amount, total) THEN amount ELSE total

\* the body of the total loop for one line and one pattern, given the match
TotalStep(match, total) ==
  IF match = <<>> THEN total
  ELSE TotalUpdate(ParseFloat(MatchIndex(match, 1)), total)

RECURSIVE TotalLoop(_, _, _, _)
\* for (const line of lines) for (const pattern of totalPatterns)
TotalLoop(lines, i, j, total) ==
  IF i > Len(lines) THEN total
  ELSE IF j > Len(totalPatterns) THEN TotalLoop(lines, i + 1, 1, total)
  ELSE TotalLoop(lines, i, j + 1,
                 TotalStep(StringMatch(lines[i], totalPatterns[j]), total))

RECURSIVE DateLoop(_, _, _, _)
\* a date pattern matched: a valid date is taken and the break leaves the
\* pattern loop; the line loop goes on
DateStep(lines, i, j, date, parsedDate) ==
  IF ~IsInvalidDate(parsedDate) THEN DateLoop(lines, i + 1, 1, parsedDate)
  ELSE DateLoop(lines, i, j + 1, date)

DateTry(lines, i, j, date, match) ==
  IF match # <<>>
  THEN DateStep(lines, i, j, date, DateParse(MatchIndex(match, 1)))
  ELSE DateLoop(lines, i, j + 1, date)

\* for (const line of lines) for (const pattern of datePatterns)
DateLoop(lines, i, j, date) ==
  IF i > Len(lines) THEN date
  ELSE IF j > Len(datePatterns) THEN DateLoop(lines, i + 1, 1, date)
  ELSE DateTry(lines, i, j, date, StringMatch(lines[i], datePatterns[j]))

\* the item a line gives: none or one
ItemOf(itemMatch) ==
  IF itemMatch # <<>> /\ Gt(ParseFloat(MatchIndex(itemMatch, 2)), Zero)
  THEN <<[name |-> Trim(MatchIndex(itemMatch, 1)),
          amount |-> ParseFloat(MatchIndex(itemMatch, 2))]>>
  ELSE <<>>

RECURSIVE ItemsLoop(_, _)
ItemsLoop(lines, i) ==
  IF i > Len(lines) THEN <<>>
  ELSE ItemOf(StringMatch(lines[i], itemPattern)) \o ItemsLoop(lines, i + 1)

\* the merchant name's length limit
MerchantMax == 50

\* the first line as it is, however long
MerchantOfWholeLine(lines) ==
  IF Len(lines) > 0 THEN lines[1] ELSE <<>>

\* the first line, limited in length
MerchantOf(lines) ==
  IF Len(lines) > 0 THEN Substring0(lines[1], MerchantMax) ELSE <<>>

\* the returned object
ReceiptData(text, total, merchantName, date, items, now) ==
  [total |-> total,
   merchantName |-> merchantName,
   date |-> IF IsInvalidDate(date) THEN DateNow(now) ELSE date,
   items |-> items,
   category |-> determineCategory(merchantName),
   rawText |-> text]

\* the parsing of the trimmed non-empty lines
ReceiptOfLines(text, lines, now) ==
  ReceiptData(text, TotalLoop(lines, 1, 1, Zero), MerchantOf(lines),
              DateLoop(lines, 1, 1, DateNow(now)), ItemsLoop(lines, 1), now)

extractReceiptData(text, now) == ReceiptOfLines(text, CleanLines(text), now)

\* suggestedTransaction without the fallback for an empty merchant name
suggestedTransactionNoFallback(extractedData) ==
  [type |-> "expense",
   amount |-> IF Truthy(extractedData.total) THEN extractedData.total
              ELSE Zero,
   description |-> <<"R","e","c","e","i","p","t"," ","f","r","o","m"," ">> \o extractedData.merchantName,
   date |-> extractedData.date,
   category |-> extractedData.category,
   paymentMethod |-> "credit_card"]

\* the suggested transaction the upload route builds from the extracted data
suggestedTransaction(extractedData) ==
  [type |-> "expense",
   amount |-> IF Truthy(extractedData.total) THEN extractedData.total
              ELSE Zero,
   description |-> <<"R","e","c","e","i","p","t"," ","f","r","o","m"," ">> \o
                   OrElse(extractedData.merchantName, <<"U","n","k","n","o","w","n"," ","M","e","r","c","h","a","n","t">>),
   date |-> extractedData.date,
   category |-> extractedData.category,
   paymentMethod |-> "credit_card"]

(***************************************************************************)
(* parseCSVFile: one 'data' event.  A row is the sequence of its           *)
(* <<header, value>> cells.                                                *)
(***************************************************************************)
RECURSIVE CellValue(_, _, _)
\* cleanData[key]: the value of the last cell whose header, trimmed and
\* lower-cased, is key
CellValue(row, key, i) ==
  IF i = 0 THEN Undefined
  ELSE IF ToLowerCase(Trim(row[i][1])) = key THEN row[i][2]
  ELSE CellValue(row, key, i - 1)

Field(row, key) == CellValue(row, key, Len(row))

dateFieldOf(row) ==
  OrElse(Field(row, <<"d","a","t","e">>),
         OrElse(Field(row, <<"t","r","a","n","s","a","c","t","i","o","n","_","d","a","t","e">>),
                Field(row, <<"t","r","a","n","s","a","c","t","i","o","n","d","a","t","e">>)))

descriptionFieldOf(row) ==
  OrElse(Field(row, <<"d","e","s","c","r","i","p","t","i","o","n">>),
         OrElse(Field(row, <<"m","e","m","o">>),
                OrElse(Field(row, <<"n","o","t","e">>), Field(row, <<"m","e","r","c","h","a","n","t">>))))

amountFieldOf(row) ==
  OrElse(Field(row, <<"a","m","o","u","n","t">>),
         OrElse(Field(row, <<"t","r","a","n","s","a","c","t","i","o","n","_","a","m","o","u","n","t">>),
                Field(row, <<"t","r","a","n","s","a","c","t","i","o","n","a","m","o","u","n","t">>)))

categoryFieldOf(row) ==
  OrElse(Field(row, <<"c","a","t","e","g","o","r","y">>),
         OrElse(Field(row, <<"t","r","a","n","s","a","c","t","i","o","n","_","c","a","t","e","g","o","r","y">>),
                Field(row, <<"t","r","a","n","s","a","c","t","i","o","n","c","a","t","e","g","o","r","y">>)))

RECURSIVE DateFormatLoop(_, _, _)
\* a format matched: parsedDate is its date, and a valid one ends the loop
DateFormatStep(dateField, j, parsedDate) ==
  IF ~IsInvalidDate(parsedDate) THEN parsedDate
  ELSE DateFormatLoop(dateField, j + 1, parsedDate)

DateFormatTry(dateField, j, parsedDate, match) ==
  IF match = <<>> THEN DateFormatLoop(dateField, j + 1, parsedDate)
  ELSE DateFormatStep(dateField, j, DateParse(MatchIndex(match, 1)))

\* for (const format of dateFormats)
DateFormatLoop(dateField, j, parsedDate) ==
  IF j > Len(dateFormats) THEN parsedDate
  ELSE DateFormatTry(dateField, j, parsedDate,
                     StringMatch(dateField, dateFormats[j]))

\* csvDateOr without the alternative formats
csvDateOrDirectOnly(dateField, parsedDate) == parsedDate

\* the alternative formats are tried when the direct parse failed
csvDateOr(dateField, parsedDate) ==
  IF IsInvalidDate(parsedDate) THEN DateFormatLoop(dateField, 1, parsedDate)
  ELSE parsedDate

csvDate(dateField) == csvDateOr(dateField, DateParse(dateField))

csvIncomeWords ==
  {<<"d","e","p","o","s","i","t">>, <<"s","a","l","a","r","y">>, <<"p","a","y","m","e","n","t"," ","r","e","c","e","i","v","e","d">>, <<"c","r","e","d","i","t">>, <<"r","e","f","u","n","d">>}

\* csvIsIncome by the sign of the amount alone
csvIsIncomeBySign(amount, descriptionField) == Gt(amount, Zero)

\* amount is the parsed amount, before Math.abs
csvIsIncome(amount, descriptionField) ==
  Gt(amount, Zero)
  \/ IncludesAny(ToLowerCase(descriptionField), csvIncomeWords)

\* csvCategory with the income test before the row's own category
csvCategoryIncomeFirst(categoryField, isIncome, descriptionField) ==
  IF isIncome THEN <<"I","n","c","o","m","e">>
  ELSE IF TruthyStr(categoryField) THEN categoryField
  ELSE determineCategory(descriptionField)

csvCategory(categoryField, isIncome, descriptionField) ==
  IF TruthyStr(categoryField) THEN categoryField
  ELSE IF isIncome THEN <<"I","n","c","o","m","e">>
  ELSE determineCategory(descriptionField)

\* csvPush without the test of the amount
csvPushAnyAmount(normalizedData) ==
  IF Len(normalizedData.description) > 0 THEN <<normalizedData>> ELSE <<>>

\* only add if we have valid data
csvPush(normalizedData) ==
  IF Gt(normalizedData.amount, Zero) /\ Len(normalizedData.description) > 0
  THEN <<normalizedData>>
  ELSE <<>>

csvNormalize(parsedDate, descriptionField, amount, isIncome, categoryField, now) ==
  csvPush([date |-> IF IsInvalidDate(parsedDate) THEN DateNow(now)
                    ELSE parsedDate,
           description |-> Trim(descriptionField),
           amount |-> MathAbs(amount),
           type |-> IF isIncome THEN "income" ELSE "expense",
           category |-> csvCategory(categoryField, isIncome,
                                    descriptionField),
           paymentMethod |-> "bank_transfer"])

\* csvParsed that drops a row whose date does not parse
csvParsedSkipBadDate(dateField, descriptionField, amount, categoryField, now) ==
  IF IsInvalidDate(csvDate(dateField)) THEN <<>>
  ELSE csvNormalize(csvDate(dateField), descriptionField, amount,
                    csvIsIncome(amount, descriptionField), categoryField, now)

csvParsed(dateField, descriptionField, amount, categoryField, now) ==
  csvNormalize(csvDate(dateField), descriptionField, amount,
               csvIsIncome(amount, descriptionField), categoryField, now)

\* csvFields without the test of the description field
csvFieldsNoDescription(dateField, descriptionField, amountField, categoryField, now) ==
  IF TruthyStr(dateField) /\ TruthyStr(amountField)
  THEN csvParsed(dateField, descriptionField,
                 ParseFloat(RemoveChars(amountField, CurrencyChars)),
                 categoryField, now)
  ELSE <<>>

csvFields(dateField, descriptionField, amountField, categoryField, now) ==
  IF TruthyStr(dateField) /\ TruthyStr(descriptionField)
     /\ TruthyStr(amountField)
  THEN csvParsed(dateField, descriptionField,
                 ParseFloat(RemoveChars(amountField, CurrencyChars)),
                 categoryField, now)
  ELSE <<>>

\* the records one row adds to results: none or one
csvRow(row, now) ==
  csvFields(dateFieldOf(row), descriptionFieldOf(row), amountFieldOf(row),
            categoryFieldOf(row), now)

(***************************************************************************)
(* parsePDFTransactions: the extracted text is given as its lines.         *)
(***************************************************************************)
pdfIncomeWords == {<<"d","e","p","o","s","i","t">>, <<"p","a","y","m","e","n","t"," ","r","e","c","e","i","v","e","d">>, <<"c","r","e","d","i","t">>}

\* pdfIsIncome with the keywords of the CSV importer
pdfIsIncomeCsvWords(amountToken, description) ==
  Includes(amountToken, <<"+">>)
  \/ IncludesAny(ToLowerCase(description), csvIncomeWords)

pdfIsIncome(amountToken, description) ==
  Includes(amountToken, <<"+">>)
  \/ IncludesAny(ToLowerCase(description), pdfIncomeWords)

pdfRecord(date, description, amount, isIncome) ==
  [date |-> date,
   description |-> description,
   amount |-> amount,
   type |-> IF isIncome THEN "income" ELSE "expense",
   category |-> IF isIncome THEN <<"I","n","c","o","m","e">>
                ELSE determineCategory(description),
   paymentMethod |-> "bank_transfer"]

pdfPush(date, description, amount, amountToken) ==
  IF ~IsInvalidDate(date) /\ Gt(amount, Zero) /\ Len(description) > 0
  THEN <<pdfRecord(date, description, amount,
                   pdfIsIncome(amountToken, description))>>
  ELSE <<>>

\* the records a matched line adds to transactions: none or one
pdfMatched(match) ==
  pdfPush(DateParse(MatchIndex(match, 1)),
          Trim(MatchIndex(match, 2)),
          MathAbs(ParseFloat(RemoveChars(MatchIndex(match, 3),
                                         CurrencyChars))),
          MatchIndex(match, 3))

RECURSIVE pdfLine(_, _)
\* pdfTry going on to the next pattern when the matched one adds nothing
pdfTryNext(line, j, match) ==
  IF match # <<>> /\ pdfMatched(match) # <<>> THEN pdfMatched(match)
  ELSE pdfLine(line, j + 1)

\* the first pattern that matches decides the line: break
pdfTry(line, j, match) ==
  IF match # <<>> THEN pdfMatched(match) ELSE pdfLine(line, j + 1)

\* for (const pattern of transactionPatterns)
pdfLine(line, j) ==
  IF j > Len(transactionPatterns) THEN <<>>
  ELSE pdfTry(line, j, StringMatch(line, transactionPatterns[j]))

RECURSIVE pdfLoop(_, _)
pdfLoop(lines, i) ==
  IF i > Len(lines) THEN <<>>
  ELSE pdfLine(lines[i], 1) \o pdfLoop(lines, i + 1)

parsePDFTransactions(text) == pdfLoop(CleanLines(text), 1)

(***************************************************************************)
(* models/Transaction.js: the category lists                               *)
(***************************************************************************)
getExpenseCategories == <<
  <<"F","o","o","d"," ","&"," ","D","i","n","i","n","g">>, <<"T","r","a","n","s","p","o","r","t","a","t","i","o","n">>, <<"S","h","o","p","p","i","n","g">>, <<"E","n","t","e","r","t","a","i","n","m","e","n","t">>,
  <<"B","i","l","l","s"," ","&"," ","U","t","i","l","i","t","i","e","s">>, <<"H","e","a","l","t","h","c","a","r","e">>, <<"E","d","u","c","a","t","i","o","n">>, <<"T","r","a","v","e","l">>,
  <<"P","e","r","s","o","n","a","l"," ","C","a","r","e">>, <<"H","o","m","e"," ","&"," ","G","a","r","d","e","n">>, <<"I","n","s","u","r","a","n","c","e">>, <<"T","a","x","e","s">>,
  <<"B","u","s","i","n","e","s","s">>, <<"G","i","f","t","s"," ","&"," ","D","o","n","a","t","i","o","n","s">>, <<"O","t","h","e","r">> >>

\* the income categories without Business
getIncomeCategoriesNoBusiness == <<
  <<"S","a","l","a","r","y">>, <<"F","r","e","e","l","a","n","c","e">>, <<"I","n","v","e","s","t","m","e","n","t">>, <<"R","e","n","t","a","l">>, <<"B","o","n","u","s">>, <<"G","i","f","t">>, <<"R","e","f","u","n","d">>, <<"O","t","h","e","r">> >>

getIncomeCategories == <<
  <<"S","a","l","a","r","y">>, <<"F","r","e","e","l","a","n","c","e">>, <<"B","u","s","i","n","e","s","s">>, <<"I","n","v","e","s","t","m","e","n","t">>, <<"R","e","n","t","a","l">>,
  <<"B","o","n","u","s">>, <<"G","i","f","t">>, <<"R","e","f","u","n","d">>, <<"O","t","h","e","r">> >>

(***************************************************************************)
(* Inputs                                                                  *)
(***************************************************************************)
\* the most lines of an OCR text or a PDF text
MaxLines == 2
\* the most rows of a CSV file
MaxRows == 2
\* the last reading of the clock
MaxClock == 1
\* the most words of a merchant name given to the classifier
MaxWords == 2
\* the most transactions the store holds
MaxSaved == 2

SeqsUpTo(pool, n) == UNION {[1..k -> pool] : k \in 0..n}

\* lines an OCR engine returns for receipts
ReceiptLines == {
  <<"W","h","o","l","e"," ","F","o","o","d","s"," ","M","a","r","k","e","t">>,
  <<" ","S","u","b","t","o","t","a","l",":"," ","$","1","8",".","5","0">>,
  <<"T","o","t","a","l",":"," ","$","2","0",".","0","0"," ">>,
  <<"$","2","5",".","0","0">>,
  <<"T","i","p"," ","$","3",".","0","0"," ","$","3","0",".","0","0">>,
  <<"A","M","O","U","N","T"," ","7">>,
  <<"S","h","e","l","l"," ","0","1","/","1","5","/","2","0","2","4">>,
  <<"2","0","2","4","-","0","2","-","0","3">>,
  <<"1","3","/","4","5","/","2","0","2","4"," ","1","-","2","-","2","4">>,
  <<" "," ">> }

\* lines a PDF engine returns for bank statements
StatementLines == {
  <<"0","1","/","1","5","/","2","0","2","4"," ","D","e","p","o","s","i","t"," ","f","r","o","m"," ","E","m","p","l","o","y","e","r"," ","+","$","1",",","2","0","0",".","0","0">>,
  <<"0","1","-","1","6","-","2","0","2","4"," ","G","r","o","c","e","r","y"," ","S","t","o","r","e"," ","-","4","5",".","6","7">>,
  <<" ","2","0","2","4","-","0","1","-","1","7"," "," ","S","h","e","l","l"," ","G","a","s"," ","3","0">>,
  <<"0","1","/","1","8","/","2","0","2","4"," ","R","e","f","u","n","d"," ","$","1","2",".","0","0">>,
  <<"0","1","/","1","9","/","2","0","2","4"," ","C","a","r","d"," ","C","r","e","d","i","t"," ",Rupee,"1",",","5">>,
  <<"9","9","/","9","9","/","2","0","2","4"," ","2","0","2","4","-","0","1","-","1","5"," ","S","t","o","r","e"," ","5",".","0","0">>,
  <<"0","1","/","2","0","/","2","0","2","4"," ","V","o","i","d"," ","0"," ","2","0","2","4","-","0","1","-","2","0"," ","F","e","e"," ","5">>,
  <<"0","1","/","2","1","/","2","0","2","4"," ","I","t","e","m"," ",",">>,
  <<"O","p","e","n","i","n","g"," ","b","a","l","a","n","c","e">>,
  <<" ">> }

\* rows a CSV stream delivers
CsvRows == {
  << <<<<"d","a","t","e">>, <<"2","0","2","4","-","0","1","-","1","5">>>>, <<<<"d","e","s","c","r","i","p","t","i","o","n">>, <<"G","r","o","c","e","r","y"," ","S","t","o","r","e">>>>,
     <<<<"a","m","o","u","n","t">>, <<"-","4","5",".","6","7">>>> >>,
  << <<<<"D","a","t","e">>, <<"0","1","/","1","6","/","2","0","2","4">>>>, <<<<"m","e","m","o">>, <<"M","o","n","t","h","l","y"," ","S","a","l","a","r","y">>>>,
     <<<<"a","m","o","u","n","t">>, <<"-","1",",","0","0","0">>>> >>,
  << <<<<"t","r","a","n","s","a","c","t","i","o","n","_","d","a","t","e">>, <<"n","/","a">>>>, <<<<"m","e","r","c","h","a","n","t">>, <<" ","U","b","e","r"," ","r","i","d","e"," ">>>>,
     <<<<" ","T","r","a","n","s","a","c","t","i","o","n","_","A","m","o","u","n","t"," ">>, <<"$","1","2",".","5","0">>>>,
     <<<<"T","r","a","n","s","a","c","t","i","o","n","_","C","a","t","e","g","o","r","y">>, <<"T","r","a","v","e","l">>>> >>,
  << <<<<"d","a","t","e">>, <<"0","1","/","1","8","/","2","0","2","4"," ","p","o","s","t","e","d">>>>, <<<<"d","e","s","c","r","i","p","t","i","o","n">>, <<"N","e","t","f","l","i","x">>>>,
     <<<<"a","m","o","u","n","t">>, <<"-","9",".","9","9">>>>, <<<<"c","a","t","e","g","o","r","y">>, <<"F","u","n">>>> >>,
  << <<<<"d","a","t","e">>, <<"2","0","2","4","-","0","1","-","1","9">>>>, <<<<"d","e","s","c","r","i","p","t","i","o","n">>, <<"S","h","e","l","l">>>> >>,
  << <<<<"d","e","s","c","r","i","p","t","i","o","n">>, <<"C","a","f","e">>>>, <<<<"a","m","o","u","n","t">>, <<"-","4">>>> >>,
  << <<<<"d","a","t","e">>, <<"2","0","2","4","-","0","1","-","2","1">>>>, <<<<"a","m","o","u","n","t">>, <<"-","4">>>> >>,
  << <<<<"d","a","t","e">>, <<"2","0","2","4","-","0","1","-","2","2">>>>, <<<<"n","o","t","e">>, <<"G","y","m">>>>,
     <<<<"a","m","o","u","n","t">>, <<"a","b","c">>>> >>,
  << <<<<"d","a","t","e">>, <<"2","0","2","4","-","0","1","-","2","3">>>>, <<<<"n","o","t","e">>, <<"T","a","x","i">>>>,
     <<<<"a","m","o","u","n","t">>, <<"0",".","0","0">>>> >>,
  << <<<<"d","a","t","e">>, <<"2","0","2","4","-","0","1","-","2","4">>>>, <<<<"d","e","s","c","r","i","p","t","i","o","n">>, <<" "," ">>>>,
     <<<<"a","m","o","u","n","t">>, <<"-","8">>>> >> }

\* the uploads: what multer hands the route; path stands for the file stored
\* at req.file.path and is what the engine that reads it finds there: the
\* lines of the text of an image or a PDF, the rows of a CSV
ReceiptUploads ==
  {[mimetype |-> <<"i","m","a","g","e","/","j","p","e","g">>, originalname |-> <<"r",".","j","p","g">>, path |-> t] :
     t \in SeqsUpTo(ReceiptLines, MaxLines)}

StatementUploads ==
  {[mimetype |-> <<"a","p","p","l","i","c","a","t","i","o","n","/","p","d","f">>, originalname |-> <<"s",".","p","d","f">>,
    path |-> t] : t \in SeqsUpTo(StatementLines, MaxLines)}

CsvUploads ==
  {[mimetype |-> <<"t","e","x","t","/","c","s","v">>, originalname |-> <<"t",".","c","s","v">>, path |-> t] :
     t \in SeqsUpTo(CsvRows, MaxRows)}
  \cup
  {[mimetype |-> <<"a","p","p","l","i","c","a","t","i","o","n","/","v","n","d",".","m","s","-","e","x","c","e","l">>, originalname |-> <<"B",".","C","S","V">>,
    path |-> <<>>],
   [mimetype |-> <<"a","p","p","l","i","c","a","t","i","o","n","/","p","d","f">>, originalname |-> <<"p",".","c","s","v">>, path |-> <<>>],
   [mimetype |-> <<"i","m","a","g","e","/","g","i","f">>, originalname |-> <<"g",".","c","s","v">>, path |-> <<>>]}

\* a spreadsheet that is no CSV, and two types the filter refuses
OtherUploads ==
  {[mimetype |-> <<"a","p","p","l","i","c","a","t","i","o","n","/","v","n","d",".","m","s","-","e","x","c","e","l">>, originalname |-> <<"b",".","x","l","s">>,
    path |-> <<>>],
   [mimetype |-> <<"t","e","x","t","/","p","l","a","i","n">>, originalname |-> <<"n",".","t","x","t">>, path |-> <<>>],
   [mimetype |-> <<"i","m","a","g","e","/","w","e","b","p">>, originalname |-> <<"w",".","w","e","b","p">>, path |-> <<>>]}

(***************************************************************************)
(* POST /api/upload                                                        *)
(***************************************************************************)
VARIABLES
  pc,       \* where the request stands: idle, ocr, pdf, csv, responded
  file,     \* req.file
  stored,   \* the uploaded file is on disk
  csvPos,   \* rows the CSV stream has delivered
  results,  \* parseCSVFile's results
  res,      \* the response sent
  sent,     \* the file part of the request, as the client sent it
  thrown,   \* the error the engine or the stream raised, "" when none
  prev,     \* the response a client kept of the previous upload of the file
  db,       \* the stored transactions
  reply,    \* the response of the last request that is no upload
  page,     \* the upload page in the browser: its preview and its message
  users,    \* the accounts that exist
  userCategories, \* routes/categories.js: the custom categories of each user
  inflight, \* the requests that have passed auth and are not yet answered
  created   \* the owner each transaction was created for, in order of creation

vars == <<pc, file, stored, csvPos, results, res, sent, thrown, prev, db, reply, page, users, userCategories, inflight, created>>

\* what the upload routes never touch
others == <<users, userCategories, inflight, created>>

\* the times new Date() may read
Times == 1..MaxClock

NoFile == [mimetype |-> <<>>, originalname |-> <<>>, path |-> <<>>]
NoResponse == [status |-> 0]

\* UploadPage.js: no preview, no message
NoPage == [previewData |-> <<>>, showPreviewModal |-> FALSE, success |-> "", n |-> 0, error |-> ""]

\* the accounts at the start
AllUsers == {"A", "B"}

\* routes/categories.js: userCategories.get(userId) || { expense: [], income: [] }
NoCategories == [expense |-> <<>>, income |-> <<>>]

\* the times a run may read: the clock does not go back, so the run that
\* repeats an upload may read a time later than any the first run read
Readings(first) == IF first = NoResponse THEN Times ELSE 1..(MaxClock + 1)

allowedTypes == {
  <<"i","m","a","g","e","/","j","p","e","g">>, <<"i","m","a","g","e","/","j","p","g">>, <<"i","m","a","g","e","/","p","n","g">>, <<"i","m","a","g","e","/","g","i","f">>,
  <<"a","p","p","l","i","c","a","t","i","o","n","/","p","d","f">>, <<"t","e","x","t","/","c","s","v">>, <<"a","p","p","l","i","c","a","t","i","o","n","/","v","n","d",".","m","s","-","e","x","c","e","l">>,
  <<"a","p","p","l","i","c","a","t","i","o","n","/","v","n","d",".","o","p","e","n","x","m","l","f","o","r","m","a","t","s","-","o","f","f","i","c","e","d","o","c","u","m","e","n","t",".","s","p","r","e","a","d","s","h","e","e","t","m","l",".","s","h","e","e","t">> }

fileFilter(f) == f.mimetype \in allowedTypes

\* line 330 without the test of the file name
IsCsvByTypeOnly(f) == f.mimetype = <<"t","e","x","t","/","c","s","v">>

IsCsv(f) ==
  f.mimetype = <<"t","e","x","t","/","c","s","v">> \/ EndsWith(ToLowerCase(f.originalname), <<".","c","s","v">>)
IsPdf(f) == ~IsCsv(f) /\ f.mimetype = <<"a","p","p","l","i","c","a","t","i","o","n","/","p","d","f">>
IsImage(f) == ~IsCsv(f) /\ ~IsPdf(f) /\ StartsWith(f.mimetype, <<"i","m","a","g","e","/">>)

\* the outer catch of the route
ErrorResponse(message) ==
  [status |-> 500, message |-> "Error processing file", error |-> message]

\* the list response of the CSV and PDF branches
ListResponse(type, transactions) ==
  [status |-> 200, type |-> type, transactions |-> transactions,
   count |-> Len(transactions)]

\* the response of the image branch
ReceiptResponse(extractedData) ==
  [status |-> 200, type |-> "receipt", extractedData |-> extractedData,
   suggestedTransaction |-> suggestedTransaction(extractedData)]

Init ==
  /\ pc = "idle"
  /\ file = NoFile
  /\ stored = FALSE
  /\ csvPos = 0
  /\ results = <<>>
  /\ res = NoResponse
  /\ sent = NoFile
  /\ thrown = ""
  /\ prev = NoResponse
  /\ db = <<>>
  /\ reply = NoResponse
  /\ page = NoPage
  /\ users = AllUsers
  /\ userCategories = [u \in AllUsers |-> NoCategories]
  /\ inflight = {}
  /\ created = <<>>

\* Dispatch with results declared outside parseCSVFile: the second run
\* appends to the records of the first
DispatchKeepsResults(f) ==
  /\ file' = f
  /\ sent' = f
  /\ pc' = IF IsCsv(f) THEN "csv" ELSE IF IsPdf(f) THEN "pdf" ELSE "ocr"
  /\ stored' = TRUE
  /\ csvPos' = 0
  /\ results' = results
  /\ res' = NoResponse
  /\ thrown' = ""

\* the route starts the engine for the type of the stored file f
Dispatch(f) ==
  /\ file' = f
  /\ sent' = f
  /\ pc' = IF IsCsv(f) THEN "csv" ELSE IF IsPdf(f) THEN "pdf" ELSE "ocr"
  /\ stored' = TRUE
  /\ csvPos' = 0
  /\ results' = <<>>
  /\ res' = NoResponse
  /\ thrown' = ""

\* multer stores the file and the route starts the engine for its type
Accept(uploads) ==
  /\ pc = "idle"
  /\ \E f \in uploads :
       /\ fileFilter(f)
       /\ IsCsv(f) \/ IsPdf(f) \/ IsImage(f)
       /\ Dispatch(f)
  /\ UNCHANGED <<page, others, prev, db, reply>>

UploadAccepted ==
  \/ Accept(ReceiptUploads)
  \/ Accept(StatementUploads)
  \/ Accept(CsvUploads)

\* a stored file of no handled type: the route throws, the inner catch
\* deletes the file, the outer catch answers 500
UploadUnsupported ==
  /\ pc = "idle"
  /\ \E f \in OtherUploads :
       /\ fileFilter(f)
       /\ ~(IsCsv(f) \/ IsPdf(f) \/ IsImage(f))
       /\ file' = f
       /\ sent' = f
  /\ stored' = FALSE
  /\ res' = ErrorResponse("Unsupported file type")
  /\ pc' = "responded"
  /\ UNCHANGED <<page, others, csvPos, results, thrown, prev, db, reply>>

\* fileFilter refuses the type: nothing is stored, the router's error
\* middleware answers 400
UploadFiltered ==
  /\ pc = "idle"
  /\ \E f \in OtherUploads :
       /\ ~fileFilter(f)
       /\ file' = NoFile
       /\ sent' = f
  /\ res' = [status |-> 400, message |-> "File type is not supported"]
  /\ pc' = "responded"
  /\ UNCHANGED <<page, others, stored, csvPos, results, thrown, prev, db, reply>>

\* a request without a file
UploadNoFile ==
  /\ pc = "idle"
  /\ file' = NoFile
  /\ res' = [status |-> 400, message |-> "No file uploaded"]
  /\ pc' = "responded"
  /\ UNCHANGED <<page, others, stored, csvPos, results, sent, thrown, prev, db, reply>>

\* the image branch saving the suggested transaction by itself
OcrResolveSaves ==
  /\ pc = "ocr"
  /\ \E now \in Readings(prev) :
       /\ res' = ReceiptResponse(extractReceiptData(file.path, now))
       /\ db' = IF Len(db) < MaxSaved
                THEN Append(db, suggestedTransaction(extractReceiptData(file.path, now)))
                ELSE db
  /\ stored' = FALSE
  /\ pc' = "responded"
  /\ UNCHANGED <<page, others, file, csvPos, results, sent, thrown, prev, reply>>

\* Tesseract.recognize resolves: the receipt is parsed and answered
OcrResolve ==
  /\ pc = "ocr"
  /\ \E now \in Readings(prev) :
       res' = ReceiptResponse(extractReceiptData(file.path, now))
  /\ stored' = FALSE
  /\ pc' = "responded"
  /\ UNCHANGED <<page, others, file, csvPos, results, sent, thrown, prev, db, reply>>

\* Tesseract.recognize rejects
OcrReject ==
  /\ pc = "ocr"
  /\ thrown' = "Error attempting to read image."
  /\ res' = ErrorResponse("Failed to extract data from receipt")
  /\ stored' = FALSE
  /\ pc' = "responded"
  /\ UNCHANGED <<page, others, file, csvPos, results, sent, prev, db, reply>>

\* pdf-parse resolves
PdfResolve ==
  /\ pc = "pdf"
  /\ res' = ListResponse("pdf", parsePDFTransactions(file.path))
  /\ stored' = FALSE
  /\ pc' = "responded"
  /\ UNCHANGED <<page, others, file, csvPos, results, sent, thrown, prev, db, reply>>

\* the catch of the route without the clean-up of lines 428-430
PdfRejectNoCleanup ==
  /\ pc = "pdf"
  /\ thrown' = "Invalid PDF structure"
  /\ res' = ErrorResponse("Failed to parse PDF transaction history")
  /\ pc' = "responded"
  /\ UNCHANGED <<page, others, file, stored, csvPos, results, sent, prev, db, reply>>

\* reading the file or pdf-parse fails
PdfReject ==
  /\ pc = "pdf"
  /\ thrown' = "Invalid PDF structure"
  /\ res' = ErrorResponse("Failed to parse PDF transaction history")
  /\ stored' = FALSE
  /\ pc' = "responded"
  /\ UNCHANGED <<page, others, file, csvPos, results, sent, prev, db, reply>>

\* the row handler without its try/catch and its guards: a row that gives
\* no record ends the import with an error
CsvDataAbortOnBadRow ==
  /\ pc = "csv"
  /\ csvPos < Len(file.path)
  /\ \E now \in Readings(prev) :
       IF csvRow(file.path[csvPos + 1], now) = <<>>
       THEN /\ res' = ErrorResponse("Error processing CSV row")
            /\ pc' = "responded"
            /\ stored' = FALSE
            /\ UNCHANGED <<csvPos, results>>
       ELSE /\ results' = results \o csvRow(file.path[csvPos + 1], now)
            /\ csvPos' = csvPos + 1
            /\ UNCHANGED <<pc, stored, res>>
  /\ UNCHANGED <<page, others, file, sent, thrown, prev, db, reply>>

\* the stream's 'data' event for the next row
CsvData ==
  /\ pc = "csv"
  /\ csvPos < Len(file.path)
  /\ \E now \in Readings(prev) :
       results' = results \o csvRow(file.path[csvPos + 1], now)
  /\ csvPos' = csvPos + 1
  /\ UNCHANGED <<page, others, pc, file, stored, res, sent, thrown, prev, db, reply>>

\* the stream's 'end' event: the promise resolves with results
CsvEnd ==
  /\ pc = "csv"
  /\ csvPos = Len(file.path)
  /\ res' = ListResponse("csv", results)
  /\ stored' = FALSE
  /\ pc' = "responded"
  /\ UNCHANGED <<page, others, file, csvPos, results, sent, thrown, prev, db, reply>>

\* the stream's 'error' event: the promise rejects with the stream's error
CsvError ==
  /\ pc = "csv"
  /\ thrown' = "stream error"
  /\ res' = ErrorResponse(thrown')
  /\ stored' = FALSE
  /\ pc' = "responded"
  /\ UNCHANGED <<page, others, file, csvPos, results, sent, prev, db, reply>>

\* the request is over; the server is ready for the next one and the page
\* is left
Finish ==
  /\ pc = "responded"
  /\ pc' = "idle"
  /\ file' = NoFile
  /\ csvPos' = 0
  /\ results' = <<>>
  /\ res' = NoResponse
  /\ sent' = NoFile
  /\ thrown' = ""
  /\ prev' = NoResponse
  /\ reply' = NoResponse
  /\ page' = NoPage
  /\ UNCHANGED <<others, stored, db>>

Next ==
  \/ UploadAccepted
  \/ UploadUnsupported
  \/ UploadFiltered
  \/ UploadNoFile
  \/ OcrResolve
  \/ OcrReject
  \/ PdfResolve
  \/ PdfReject
  \/ CsvData
  \/ CsvEnd
  \/ CsvError
  \/ Finish

Spec == Init /\ [][Next]_vars

(***************************************************************************)
(* The classifier on merchant names: receipts whose only line is a name    *)
(* made of up to MaxWords of these phrases.                                *)
(***************************************************************************)
MerchantWords == {
  <<"S","h","e","l","l"," ","G","a","s"," ","S","t","a","t","i","o","n">>, <<"W","h","o","l","e"," ","F","o","o","d","s"," ","M","a","r","k","e","t">>, <<"R","a","n","d","o","m"," ","S","t","o","r","e"," ","X","Y","Z">>,
  <<"A","m","a","z","o","n"," ","P","r","i","m","e">>, <<"N","E","T","F","L","I","X">>, <<"U","b","e","r">>, <<"W","a","l","m","a","r","t">>, <<"G","y","m">>, <<"C","a","f","e">>,
  <<"F","u","e","l">> }

RECURSIVE JoinWords(_)
\* the words with one space between them
JoinWords(ws) ==
  IF ws = <<>> THEN <<>>
  ELSE IF Len(ws) = 1 THEN ws[1]
  ELSE ws[1] \o <<" ">> \o JoinWords(Tail(ws))

\* a name that takes most of the 50 characters of a merchant name
LongName == <<"S","p","r","i","n","g","f","i","e","l","d"," ","I","n","d","e","p","e","n","d","e","n","t"," ","B","o","o","k","s","e","l","l","e","r","s"," ","C","o","o","p","e","r","a","t","i","v","e">>

\* the names of the receipts: up to MaxWords phrases, or the long name and a
\* phrase
MerchantNames ==
  {JoinWords(ws) : ws \in SeqsUpTo(MerchantWords, MaxWords)} \cup {JoinWords(<<LongName, w>>) : w \in MerchantWords}

MerchantUploads ==
  {[mimetype |-> <<"i","m","a","g","e","/","p","n","g">>, originalname |-> <<"m",".","p","n","g">>,
    path |-> <<<<" ">>, name>>] : name \in MerchantNames}

UploadMerchant == Accept(MerchantUploads)

NextClassify ==
  \/ UploadMerchant
  \/ OcrResolve
  \/ OcrReject
  \/ Finish

SpecClassify == Init /\ [][NextClassify]_vars

(***************************************************************************)
(* The same file uploaded twice: the client keeps the first response and   *)
(* sends the file again.                                                   *)
(***************************************************************************)
RepeatReceipts ==
  {[mimetype |-> <<"i","m","a","g","e","/","j","p","e","g">>, originalname |-> <<"r",".","j","p","g">>, path |-> t] :
     t \in SeqsUpTo(ReceiptLines, 1)}

RepeatStatements ==
  {[mimetype |-> <<"a","p","p","l","i","c","a","t","i","o","n","/","p","d","f">>, originalname |-> <<"s",".","p","d","f">>, path |-> t] :
     t \in SeqsUpTo(StatementLines, 1)}

RepeatCsvs ==
  {[mimetype |-> <<"t","e","x","t","/","c","s","v">>, originalname |-> <<"t",".","c","s","v">>, path |-> t] :
     t \in SeqsUpTo(CsvRows, 1)}

UploadRepeat ==
  \/ Accept(RepeatReceipts)
  \/ Accept(RepeatStatements)
  \/ Accept(RepeatCsvs)

\* the file of an answered upload is uploaded again
Resend ==
  /\ pc = "responded"
  /\ res.status = 200
  /\ prev = NoResponse
  /\ prev' = res
  /\ fileFilter(file)
  /\ Dispatch(file)
  /\ UNCHANGED <<page, others, db, reply>>

NextRepeat ==
  \/ UploadRepeat
  \/ OcrResolve
  \/ PdfResolve
  \/ CsvData
  \/ CsvEnd
  \/ Resend
  \/ Finish

SpecRepeat == Init /\ [][NextRepeat]_vars

(***************************************************************************)
(* The requests that store transactions: POST /api/upload/add-single,      *)
(* bulk-import and selective-import, and POST /api/transactions.  The      *)
(* client sends what the last upload response gave it.                     *)
(***************************************************************************)
\* models/Transaction.js: amount min 0.01
MinAmount == Num(1, 2)

\* models/Transaction.js: the enum of paymentMethod
paymentMethods ==
  {"cash", "credit_card", "debit_card", "bank_transfer", "digital_wallet", "check", "other"}

\* !amount || !description || !date is false; an invalid date is null in JSON
RequiredFields(t) ==
  /\ Truthy(t.amount)
  /\ t.description # <<>>
  /\ ~IsInvalidDate(t.date)

\* the schema without the least amount
SchemaValidNoMin(t) ==
  /\ t.type \in {"income", "expense"}
  /\ t.amount.k = "num"
  /\ Trim(t.category) # <<>>
  /\ Trim(t.description) # <<>>
  /\ Len(Trim(t.description)) <= 500
  /\ ~IsInvalidDate(t.date)
  /\ t.paymentMethod \in paymentMethods

\* the validation of the Transaction schema at save()
SchemaValid(t) ==
  /\ t.type \in {"income", "expense"}
  /\ t.amount.k = "num"
  /\ ~Gt(MinAmount, t.amount)
  /\ Trim(t.category) # <<>>
  /\ Trim(t.description) # <<>>
  /\ Len(Trim(t.description)) <= 500
  /\ ~IsInvalidDate(t.date)
  /\ t.paymentMethod \in paymentMethods

\* the express-validator chain of POST /api/transactions
BodyValid(t) ==
  /\ t.type \in {"income", "expense"}
  /\ t.amount.k = "num"
  /\ ~Gt(MinAmount, t.amount)
  /\ Trim(t.category) # <<>>
  /\ Trim(t.description) # <<>>

\* new Transaction({...data, user: req.user._id}): category and description
\* are trimmed by the schema
Stored(t) ==
  [user |-> "user", type |-> t.type, amount |-> t.amount,
   category |-> Trim(t.category), description |-> Trim(t.description),
   date |-> t.date, paymentMethod |-> t.paymentMethod]

RECURSIVE SaveAllStopAtError(_)
\* the loop left at the first item that fails
SaveAllStopAtError(ts) ==
  IF ts = <<>> THEN <<>>
  ELSE IF RequiredFields(Head(ts)) /\ SchemaValid(Head(ts))
       THEN <<Stored(Head(ts))>> \o SaveAllStopAtError(Tail(ts))
       ELSE <<>>

RECURSIVE SaveAll(_)
\* the loop of the import routes: what is saved of the transactions ts; an
\* item that fails is collected in errors and the loop goes on
SaveAll(ts) ==
  IF ts = <<>> THEN <<>>
  ELSE (IF RequiredFields(Head(ts)) /\ SchemaValid(Head(ts))
        THEN <<Stored(Head(ts))>> ELSE <<>>) \o SaveAll(Tail(ts))

RECURSIVE ImportErrors(_, _)
\* the loop of the import routes: what is collected in errors of the
\* transactions ts, the first of them at index i
ImportErrors(ts, i) ==
  IF ts = <<>> THEN <<>>
  ELSE (IF RequiredFields(Head(ts)) /\ SchemaValid(Head(ts))
        THEN <<>> ELSE <<[index |-> i, transaction |-> Head(ts)]>>) \o ImportErrors(Tail(ts), i + 1)

\* the answer of the two import routes
ImportReply(saved, errors) ==
  [status |-> 200, imported |-> Len(saved), errors |-> Len(errors),
   errorDetails |-> errors, transactions |-> saved]

\* the body of the two import routes after their 400 tests
ImportStep(ts) ==
  /\ db' = db \o SaveAll(ts)
  /\ reply' = ImportReply(SaveAll(ts), ImportErrors(ts, 0))

RECURSIVE PickFrom(_, _, _)
\* selectedIndices.map(index => transactions[index]).filter(Boolean), the
\* indices from i on taken in rising order
PickFrom(ts, indices, i) ==
  IF i >= Len(ts) THEN <<>>
  ELSE (IF i \in indices THEN <<ts[i + 1]>> ELSE <<>>) \o PickFrom(ts, indices, i + 1)

\* the amounts a client may put in place of the offered one: zero, a negative
\* amount, and one below the least amount of the schema
EditedAmounts == {Zero, Num(-5, 0), Num(1, 3)}

\* the body a client sends for an offered transaction: as offered, or with
\* the amount edited
Edited(t) == {t} \cup {[t EXCEPT !.amount = a] : a \in EditedAmounts}

\* the list a client sends: as offered, or with its first item edited
EditedList(ts) ==
  IF ts = <<>> THEN {ts}
  ELSE {[ts EXCEPT ![1] = t] : t \in Edited(ts[1])}

AddSingleStep(body) ==
  IF ~RequiredFields(body)
  THEN /\ reply' = [status |-> 400, message |-> "Missing required fields: amount, description, or date"]
       /\ db' = db
  ELSE IF SchemaValid(body)
  THEN /\ reply' = [status |-> 200, message |-> "Transaction added successfully", transaction |-> Stored(body)]
       /\ db' = Append(db, Stored(body))
  ELSE /\ reply' = [status |-> 500, message |-> "Error adding transaction"]
       /\ db' = db

\* POST /api/upload/add-single with the suggested transaction of a receipt,
\* as offered or edited
AddSingle ==
  /\ pc = "responded"
  /\ res.status = 200
  /\ res.type = "receipt"
  /\ Len(db) < MaxSaved
  /\ \E body \in Edited(res.suggestedTransaction) : AddSingleStep(body)
  /\ UNCHANGED <<page, others, pc, file, stored, csvPos, results, res, sent, thrown, prev>>

BulkStep(ts) ==
  IF ts = <<>>
  THEN /\ reply' = [status |-> 400, message |-> "No transactions provided"]
       /\ db' = db
  ELSE ImportStep(ts)

\* POST /api/upload/bulk-import with the transactions of a CSV or PDF answer
BulkImport ==
  /\ pc = "responded"
  /\ res.status = 200
  /\ res.type \in {"csv", "pdf"}
  /\ Len(db) + Len(res.transactions) <= MaxSaved
  /\ \E transactions \in EditedList(res.transactions) : BulkStep(transactions)
  /\ UNCHANGED <<page, others, pc, file, stored, csvPos, results, res, sent, thrown, prev>>

SelectiveStep(selectedTransactions) ==
  IF selectedTransactions = <<>>
  THEN /\ reply' = [status |-> 400, message |-> "No transactions selected"]
       /\ db' = db
  ELSE ImportStep(selectedTransactions)

\* POST /api/upload/selective-import with the transactions of a CSV or PDF
\* answer and a set of indices, one past the end among them
SelectiveImport ==
  /\ pc = "responded"
  /\ res.status = 200
  /\ res.type \in {"csv", "pdf"}
  /\ Len(db) + Len(res.transactions) <= MaxSaved
  /\ \E transactions \in EditedList(res.transactions) :
       \E selectedIndices \in SUBSET (0..Len(transactions)) :
         SelectiveStep(PickFrom(transactions, selectedIndices, 0))
  /\ UNCHANGED <<page, others, pc, file, stored, csvPos, results, res, sent, thrown, prev>>

CreateStep(body) ==
  IF ~BodyValid(body)
  THEN /\ reply' = [status |-> 400, message |-> "validation errors"]
       /\ db' = db
  ELSE IF SchemaValid(body)
  THEN /\ reply' = [status |-> 201, message |-> "Transaction created successfully", transaction |-> Stored(body)]
       /\ db' = Append(db, Stored(body))
  ELSE /\ reply' = [status |-> 500, message |-> "Server error creating transaction"]
       /\ db' = db

\* POST /api/transactions with the suggested transaction of a receipt
CreateTransaction ==
  /\ pc = "responded"
  /\ res.status = 200
  /\ res.type = "receipt"
  /\ Len(db) < MaxSaved
  /\ \E body \in Edited(res.suggestedTransaction) : CreateStep(body)
  /\ UNCHANGED <<page, others, pc, file, stored, csvPos, results, res, sent, thrown, prev>>

ImportReceipts ==
  {[mimetype |-> <<"i","m","a","g","e","/","j","p","e","g">>, originalname |-> <<"r",".","j","p","g">>, path |-> t] :
     t \in {<<<<"T","o","t","a","l",":"," ","$","2","0",".","0","0"," ">>>>, <<<<"W","h","o","l","e"," ","F","o","o","d","s"," ","M","a","r","k","e","t">>>>}}

ImportStatements ==
  {[mimetype |-> <<"a","p","p","l","i","c","a","t","i","o","n","/","p","d","f">>, originalname |-> <<"s",".","p","d","f">>, path |-> t] :
     t \in {<<<<"0","1","/","1","5","/","2","0","2","4"," ","D","e","p","o","s","i","t"," ","f","r","o","m"," ","E","m","p","l","o","y","e","r"," ","+","$","1",",","2","0","0",".","0","0">>>>, <<<<"O","p","e","n","i","n","g"," ","b","a","l","a","n","c","e">>>>}}

\* a row whose amount is positive and below the least amount of the schema
TinyRow ==
  << <<<<"d","a","t","e">>, <<"2","0","2","4","-","0","1","-","2","5">>>>, <<<<"d","e","s","c","r","i","p","t","i","o","n">>, <<"P","a","r","k","i","n","g">>>>, <<<<"a","m","o","u","n","t">>, <<"0",".","0","0","1">>>> >>

ImportCsvs ==
  {[mimetype |-> <<"t","e","x","t","/","c","s","v">>, originalname |-> <<"t",".","c","s","v">>, path |-> t] :
     t \in {<<TinyRow, CHOOSE r \in CsvRows : descriptionFieldOf(r) = <<"G","r","o","c","e","r","y"," ","S","t","o","r","e">>>>, <<>>}}

UploadImport ==
  \/ Accept(ImportReceipts)
  \/ Accept(ImportStatements)
  \/ Accept(ImportCsvs)

\* UploadPage.js, uploadFile after the answer: the transactions of a CSV or
\* PDF answer, when there are any, go to the preview and the modal opens
PagePreview ==
  /\ pc = "responded"
  /\ res.status = 200
  /\ res.type \in {"csv", "pdf"}
  /\ Len(res.transactions) > 0
  /\ page' = [page EXCEPT !.previewData = res.transactions, !.showPreviewModal = TRUE]
  /\ UNCHANGED <<others, pc, file, stored, csvPos, results, res, sent, thrown, prev, db, reply>>

\* what bulkImportTransactions leaves on the page after the answer r to the
\* import of the preview: the message with previewData.length, or the error
PageAfterImport(r) ==
  IF r.status = 200
  THEN [page EXCEPT !.success = "Successfully imported N transactions!", !.n = Len(page.previewData),
                    !.showPreviewModal = FALSE, !.previewData = <<>>]
  ELSE [page EXCEPT !.error = "Failed to import transactions"]

\* UploadPage.js, bulkImportTransactions: the Import button of the modal
\* posts the preview to /api/upload/bulk-import
PageBulkImport ==
  /\ page.showPreviewModal
  /\ Len(db) + Len(page.previewData) <= MaxSaved
  /\ BulkStep(page.previewData)
  /\ page' = PageAfterImport(reply')
  /\ UNCHANGED <<others, pc, file, stored, csvPos, results, res, sent, thrown, prev>>

NextImport ==
  \/ PagePreview
  \/ PageBulkImport
  \/ UploadImport
  \/ UploadUnsupported
  \/ UploadFiltered
  \/ UploadNoFile
  \/ OcrResolve
  \/ OcrReject
  \/ PdfResolve
  \/ PdfReject
  \/ CsvData
  \/ CsvEnd
  \/ CsvError
  \/ AddSingle
  \/ BulkImport
  \/ SelectiveImport
  \/ CreateTransaction
  \/ Finish

SpecImport == Init /\ [][NextImport]_vars

(***************************************************************************)
(* Properties                                                              *)
(***************************************************************************)
MinOf(S) == CHOOSE x \in S : \A y \in S : x <= y

\* the responses of the three branches
ReceiptDone == pc = "responded" /\ res.status = 200 /\ res.type = "receipt"
PdfDone == pc = "responded" /\ res.status = 200 /\ res.type = "pdf"
CsvDone == pc = "responded" /\ res.status = 200 /\ res.type = "csv"
CsvRunning == pc = "csv" \/ CsvDone

\* an amount text after stripping '$', ',' and the rupee sign
AmountOf(text) == ParseFloat(RemoveChars(text, CurrencyChars))

\* neither zero nor NaN
UsableAmount(a) == a.k # "nan" /\ a # Zero

\* amount > 0 and a non-empty trimmed description
RecordOk(r) ==
  /\ Gt(r.amount, Zero)
  /\ r.description # <<>>
  /\ r.description = Trim(r.description)

\* the rows the stream has delivered
RowsSoFar == SubSeq(file.path, 1, csvPos)

CsvRowUsable(row) ==
  /\ UsableAmount(AmountOf(amountFieldOf(row)))
  /\ TruthyStr(descriptionFieldOf(row))
  /\ Trim(descriptionFieldOf(row)) # <<>>

\* the patterns that match a statement line, and the match of the first
PdfMatching(line) ==
  {j \in 1..Len(transactionPatterns) :
     StringMatch(line, transactionPatterns[j]) # <<>>}

RECURSIVE PdfMatchFrom(_, _)
PdfMatchFrom(line, j) ==
  IF j > Len(transactionPatterns) THEN <<>>
  ELSE LET m == StringMatch(line, transactionPatterns[j])
       IN IF m # <<>> THEN m ELSE PdfMatchFrom(line, j + 1)

PdfFirstMatch(line) == PdfMatchFrom(line, 1)

PdfLineUsable(line) ==
  LET m == PdfFirstMatch(line)
  IN /\ m # <<>>
     /\ UsableAmount(AmountOf(m[4]))
     /\ Trim(m[3]) # <<>>

\* C1: every record of the CSV and PDF extractors has amount > 0 and a
\* non-empty trimmed description, and a row or line whose amount is zero or
\* unparseable or whose description is blank contributes no record (there
\* are at most as many records as usable rows or lines)
C1_RecordsPositive ==
  /\ \A k \in 1..Len(results) : RecordOk(results[k])
  /\ CsvRunning =>
       Len(results) <=
         Cardinality({i \in 1..csvPos : CsvRowUsable(file.path[i])})
  /\ CsvDone => \A k \in 1..Len(res.transactions) : RecordOk(res.transactions[k])
  /\ PdfDone =>
       /\ \A k \in 1..Len(res.transactions) : RecordOk(res.transactions[k])
       /\ Len(res.transactions) <=
            Cardinality({i \in 1..Len(CleanLines(file.path)) :
                           PdfLineUsable(CleanLines(file.path)[i])})

\* a CSV import with a row of zero or unparseable amount and a record of
\* another row
C1_Witness ==
  /\ CsvDone
  /\ Len(res.transactions) = 1
  /\ \E i \in 1..Len(file.path) :
       /\ TruthyStr(amountFieldOf(file.path[i]))
       /\ TruthyStr(descriptionFieldOf(file.path[i]))
       /\ TruthyStr(dateFieldOf(file.path[i]))
       /\ ~UsableAmount(AmountOf(amountFieldOf(file.path[i])))

\* the three fields are there
CsvPresent(row) ==
  /\ TruthyStr(dateFieldOf(row))
  /\ TruthyStr(descriptionFieldOf(row))
  /\ TruthyStr(amountFieldOf(row))

CsvEmits(row) == CsvPresent(row) /\ CsvRowUsable(row)

\* the delivered rows that emit a record, in order
CsvSources == SelectSeq(RowsSoFar, CsvEmits)

CsvKeywordIncome(row) ==
  \E w \in {<<"d","e","p","o","s","i","t">>, <<"s","a","l","a","r","y">>, <<"p","a","y","m","e","n","t"," ","r","e","c","e","i","v","e","d">>, <<"c","r","e","d","i","t">>,
            <<"r","e","f","u","n","d">>} :
    Includes(ToLowerCase(descriptionFieldOf(row)), w)

GroceryRow ==
  << <<<<"d","a","t","e">>, <<"2","0","2","4","-","0","1","-","1","5">>>>, <<<<"d","e","s","c","r","i","p","t","i","o","n">>, <<"G","r","o","c","e","r","y"," ","S","t","o","r","e">>>>,
     <<<<"a","m","o","u","n","t">>, <<"-","4","5",".","6","7">>>> >>

Absent(row, aliases) == \A a \in aliases : Field(row, a) = Undefined

CsvMissing(row) ==
  \/ Absent(row, {<<"d","a","t","e">>, <<"t","r","a","n","s","a","c","t","i","o","n","_","d","a","t","e">>, <<"t","r","a","n","s","a","c","t","i","o","n","d","a","t","e">>})
  \/ Absent(row, {<<"d","e","s","c","r","i","p","t","i","o","n">>, <<"m","e","m","o">>, <<"n","o","t","e">>, <<"m","e","r","c","h","a","n","t">>})
  \/ Absent(row, {<<"a","m","o","u","n","t">>, <<"t","r","a","n","s","a","c","t","i","o","n","_","a","m","o","u","n","t">>, <<"t","r","a","n","s","a","c","t","i","o","n","a","m","o","u","n","t">>})

CsvComplete(row) == ~CsvMissing(row)

\* a record with the time it read set to 1
AtFirst(r) == IF r.date.k = "now" THEN [r EXCEPT !.date = DateNow(1)] ELSE r

RECURSIVE RecordsOf(_)
\* what the rows give one by one
RecordsOf(rows) ==
  IF rows = <<>> THEN <<>>
  ELSE csvRow(Head(rows), 1) \o RecordsOf(Tail(rows))

\* C3: a row without a date, description or amount field emits no record and
\* no error; the output is exactly the records of the other rows
C3_MissingFieldSkipped ==
  /\ CsvRunning =>
       [k \in 1..Len(results) |-> AtFirst(results[k])]
         = RecordsOf(SelectSeq(RowsSoFar, CsvComplete))
  /\ (pc = "responded" /\ IsCsv(file) /\ csvPos = Len(file.path)
        /\ res.status # 200) => res.error = "stream error"

\* an import whose first row lacks a field and whose second row gave a record
C3_Witness ==
  /\ CsvDone
  /\ Len(file.path) = 2
  /\ CsvMissing(file.path[1])
  /\ Len(res.transactions) = 1

PdfEmits(line) ==
  LET m == PdfFirstMatch(line)
  IN /\ m # <<>>
     /\ ~IsInvalidDate(DateParse(m[2]))
     /\ Gt(MathAbs(AmountOf(m[4])), Zero)
     /\ Trim(m[3]) # <<>>

\* the statement lines that emit a record, in order
PdfSources == SelectSeq(CleanLines(file.path), PdfEmits)

PdfIncome(m) ==
  \/ Includes(m[4], <<"+">>)
  \/ \E w \in {<<"d","e","p","o","s","i","t">>, <<"p","a","y","m","e","n","t"," ","r","e","c","e","i","v","e","d">>, <<"c","r","e","d","i","t">>} :
       Includes(ToLowerCase(Trim(m[3])), w)

\* C4: an emitted PDF record is income exactly when the raw amount token
\* holds a '+' or the description holds deposit, payment received or credit;
\* its category is Income exactly when it is income, else the classifier's
\* result on the description; the Deposit from Employer line gives one income
\* record of 1200
C4_PdfPolarity ==
  /\ PdfDone =>
       /\ Len(res.transactions) = Len(PdfSources)
       /\ \A k \in 1..Len(res.transactions) :
            LET m == PdfFirstMatch(PdfSources[k])
                r == res.transactions[k]
            IN /\ r.type \in {"income", "expense"}
               /\ r.type = "income" <=> PdfIncome(m)
               /\ r.category = <<"I","n","c","o","m","e">> <=> r.type = "income"
               /\ r.type = "expense" =>
                    r.category = determineCategory(Trim(m[3]))
  /\ (PdfDone /\ file.path =
        <<<<"0","1","/","1","5","/","2","0","2","4"," ","D","e","p","o","s","i","t"," ","f","r","o","m"," ","E","m","p","l","o","y","e","r"," ","+","$","1",",","2","0","0",".","0","0">>>>) =>
       /\ Len(res.transactions) = 1
       /\ res.transactions[1].type = "income"
       /\ res.transactions[1].amount = Num(1200, 0)

\* a statement with an income line and an expense line
C4_Witness ==
  /\ PdfDone
  /\ Len(res.transactions) = 2
  /\ res.transactions[1].type = "income"
  /\ Includes(PdfFirstMatch(PdfSources[1])[4], <<"+">>)
  /\ res.transactions[2].type = "expense"

\* C5: each non-empty statement line gives at most one record, that of the
\* first pattern matching it and none when that match has an invalid date or
\* a non-positive amount; the records stand in the order of their lines
C5_FirstMatchWins ==
  PdfDone =>
    /\ Len(res.transactions) <= Len(CleanLines(file.path))
    /\ Len(res.transactions) = Len(PdfSources)
    /\ \A k \in 1..Len(res.transactions) :
         LET m == PdfFirstMatch(PdfSources[k])
             r == res.transactions[k]
         IN /\ r.date = DateParse(m[2])
            /\ r.description = Trim(m[3])
            /\ r.amount = MathAbs(AmountOf(m[4]))

\* a statement whose first line matches two patterns, the first of them
\* giving nothing, and whose second line gave the only record
C5_Witness ==
  /\ PdfDone
  /\ Len(CleanLines(file.path)) = 2
  /\ Cardinality(PdfMatching(CleanLines(file.path)[1])) >= 2
  /\ ~PdfEmits(CleanLines(file.path)[1])
  /\ Len(res.transactions) = 1

\* the elements of a sequence
Range(s) == {s[i] : i \in 1..Len(s)}

\* the greatest of the amounts S and 0
MaxOrZero(S) ==
  CHOOSE v \in S \cup {Zero} : \A w \in S \cup {Zero} : ~Gt(w, v)

\* the amounts a total pattern captures on a line: group 1 of its match, of
\* each of its matches when it is global
CapturedAmounts(line, re) ==
  IF re.global
  THEN {ParseFloat(Exec(re, w)[2]) : w \in Range(AllMatches(re.items, line, 1))}
  ELSE IF Exec(re, line) = <<>> THEN {}
  ELSE {ParseFloat(Exec(re, line)[2])}

CapturedTotals(lines) ==
  UNION {CapturedAmounts(lines[i], totalPatterns[j]) :
           i \in 1..Len(lines), j \in 1..Len(totalPatterns)}

\* C6: the receipt total is the greatest value captured by any of the six
\* total patterns on any line, and 0 when none matches; Subtotal: $18.50 and
\* Total: $20.00 on two lines give 20.00
C6_TotalIsMaxCaptured ==
  ReceiptDone =>
    /\ res.extractedData.total
         = MaxOrZero(CapturedTotals(CleanLines(file.path)))
    /\ file.path = <<<<" ","S","u","b","t","o","t","a","l",":"," ","$","1","8",".","5","0">>, <<"T","o","t","a","l",":"," ","$","2","0",".","0","0"," ">>>> =>
         res.extractedData.total = Num(20, 0)

\* a receipt with a labelled total and a greater bare dollar amount
C6_Witness ==
  /\ ReceiptDone
  /\ file.path = <<<<"T","o","t","a","l",":"," ","$","2","0",".","0","0"," ">>, <<"$","2","5",".","0","0">>>>
  /\ res.extractedData.total = Num(20, 0)

\* the dollar amounts with two decimals on the lines
DollarAmounts(lines) ==
  UNION {CapturedAmounts(lines[i], totalPatterns[4]) : i \in 1..Len(lines)}

NoTotalLabel(lines) ==
  \A i \in 1..Len(lines) :
    /\ ~Includes(ToLowerCase(lines[i]), <<"t","o","t","a","l">>)
    /\ ~Includes(ToLowerCase(lines[i]), <<"a","m","o","u","n","t">>)

\* C7: when some line holds a dollar amount with two decimals and no line
\* carries a total or amount label, the receipt total is the greatest such
\* dollar amount, not 0
C7_BareDollarCounts ==
  (ReceiptDone /\ DollarAmounts(CleanLines(file.path)) # {}
     /\ NoTotalLabel(CleanLines(file.path))) =>
    /\ res.extractedData.total
         = MaxOrZero(DollarAmounts(CleanLines(file.path)))
    /\ res.extractedData.total # Zero

\* a receipt of the one line $25.00 whose total is 0
C7_Witness ==
  /\ ReceiptDone
  /\ file.path = <<<<"$","2","5",".","0","0">>>>
  /\ res.extractedData.total = Zero

\* the date patterns that match a line with a date that parses
DatedBy(line) ==
  {j \in 1..Len(datePatterns) :
     /\ StringMatch(line, datePatterns[j]) # <<>>
     /\ ~IsInvalidDate(DateParse(StringMatch(line, datePatterns[j])[2]))}

LineDate(line) ==
  DateParse(StringMatch(line, datePatterns[MinOf(DatedBy(line))])[2])

DatedLines(lines) == {i \in 1..Len(lines) : DatedBy(lines[i]) # {}}

\* C8: the receipt date is that of the earliest line holding a parseable
\* date, by the first date pattern that gives one; later lines never override
\* it; with no such line it is the current date
C8_FirstDateWins ==
  ReceiptDone =>
    IF DatedLines(CleanLines(file.path)) = {}
    THEN res.extractedData.date.k = "now"
    ELSE res.extractedData.date =
           LineDate(CleanLines(file.path)
                      [MinOf(DatedLines(CleanLines(file.path)))])

\* a receipt with two dated lines that returns the date of the second
C8_Witness ==
  /\ ReceiptDone
  /\ file.path = <<<<"S","h","e","l","l"," ","0","1","/","1","5","/","2","0","2","4">>, <<"2","0","2","4","-","0","2","-","0","3">>>>
  /\ res.extractedData.date = LineDate(<<"2","0","2","4","-","0","2","-","0","3">>)
  /\ res.extractedData.date # LineDate(<<"S","h","e","l","l"," ","0","1","/","1","5","/","2","0","2","4">>)

NoTotalMatch(lines) ==
  \A i \in 1..Len(lines), j \in 1..Len(totalPatterns) :
    StringMatch(lines[i], totalPatterns[j]) = <<>>

\* C9: the suggested transaction of an image upload is an expense paid by
\* credit_card whose amount is the extracted total (0 when no total pattern
\* matched), whose date and category are the extracted ones and whose
\* description is 'Receipt from ' and the merchant name, or 'Unknown
\* Merchant' when the name is empty
C9_SuggestedTransaction ==
  ReceiptDone =>
    /\ res.suggestedTransaction.type = "expense"
    /\ res.suggestedTransaction.paymentMethod = "credit_card"
    /\ res.suggestedTransaction.amount = res.extractedData.total
    /\ NoTotalMatch(CleanLines(file.path)) =>
         res.suggestedTransaction.amount = Zero
    /\ res.suggestedTransaction.date = res.extractedData.date
    /\ res.suggestedTransaction.category = res.extractedData.category
    /\ res.suggestedTransaction.description =
         <<"R","e","c","e","i","p","t"," ","f","r","o","m"," ">> \o
           (IF res.extractedData.merchantName = <<>>
            THEN <<"U","n","k","n","o","w","n"," ","M","e","r","c","h","a","n","t">>
            ELSE res.extractedData.merchantName)

\* a receipt without a merchant name and without a total
C9_Witness ==
  /\ ReceiptDone
  /\ res.extractedData.merchantName = <<>>
  /\ res.suggestedTransaction.amount = Zero
  /\ res.suggestedTransaction.description = <<"R","e","c","e","i","p","t"," ","f","r","o","m"," ","U","n","k","n","o","w","n"," ","M","e","r","c","h","a","n","t">>

\* the rules of the classifier in their order
CategoryRules == <<
  [words |-> {<<"g","r","o","c","e","r","y">>, <<"f","o","o","d">>, <<"s","u","p","e","r","m","a","r","k","e","t">>, <<"m","a","r","k","e","t">>},
   category |-> <<"F","o","o","d"," ","&"," ","D","i","n","i","n","g">>],
  [words |-> {<<"g","a","s">>, <<"f","u","e","l">>, <<"s","h","e","l","l">>, <<"e","x","x","o","n">>},
   category |-> <<"T","r","a","n","s","p","o","r","t","a","t","i","o","n">>],
  [words |-> {<<"a","m","a","z","o","n">>, <<"w","a","l","m","a","r","t">>, <<"t","a","r","g","e","t">>, <<"c","o","s","t","c","o">>},
   category |-> <<"S","h","o","p","p","i","n","g">>],
  [words |-> {<<"r","e","s","t","a","u","r","a","n","t">>, <<"c","a","f","e">>, <<"p","i","z","z","a">>, <<"b","u","r","g","e","r">>},
   category |-> <<"F","o","o","d"," ","&"," ","D","i","n","i","n","g">>],
  [words |-> {<<"u","b","e","r">>, <<"l","y","f","t">>, <<"t","a","x","i">>},
   category |-> <<"T","r","a","n","s","p","o","r","t","a","t","i","o","n">>],
  [words |-> {<<"n","e","t","f","l","i","x">>, <<"s","p","o","t","i","f","y">>, <<"h","u","l","u">>, <<"a","m","a","z","o","n"," ","p","r","i","m","e">>},
   category |-> <<"E","n","t","e","r","t","a","i","n","m","e","n","t">>],
  [words |-> {<<"g","y","m">>, <<"f","i","t","n","e","s","s">>},
   category |-> <<"H","e","a","l","t","h"," ","&"," ","F","i","t","n","e","s","s">>] >>

RulesHit(text) ==
  {i \in 1..Len(CategoryRules) :
     \E w \in CategoryRules[i].words : Includes(ToLowerCase(text), w)}

FirstRuleCategory(text) ==
  IF RulesHit(text) = {} THEN <<"O","t","h","e","r">>
  ELSE CategoryRules[MinOf(RulesHit(text))].category

CategoryExamples ==
  /\ res.extractedData.merchantName = <<"S","h","e","l","l"," ","G","a","s"," ","S","t","a","t","i","o","n">> =>
       res.extractedData.category = <<"T","r","a","n","s","p","o","r","t","a","t","i","o","n">>
  /\ res.extractedData.merchantName = <<"W","h","o","l","e"," ","F","o","o","d","s"," ","M","a","r","k","e","t">> =>
       res.extractedData.category = <<"F","o","o","d"," ","&"," ","D","i","n","i","n","g">>
  /\ res.extractedData.merchantName = <<"R","a","n","d","o","m"," ","S","t","o","r","e"," ","X","Y","Z">> =>
       res.extractedData.category = <<"O","t","h","e","r">>

\* C10 as amended: the category is that of the first rule in the fixed order
\* one of whose keywords is in the lower-cased text, Other when there is
\* none; with the three examples, and a text holding 'amazon prime' is
\* Shopping unless a keyword of the two earlier rules is in it as well
C10_ClassifierPrecedence ==
  ReceiptDone =>
    /\ res.extractedData.category
         = FirstRuleCategory(res.extractedData.merchantName)
    /\ CategoryExamples
    /\ (Includes(ToLowerCase(res.extractedData.merchantName),
                 <<"a","m","a","z","o","n"," ","p","r","i","m","e">>)
          /\ RulesHit(res.extractedData.merchantName) \cap {1, 2} = {}) =>
         res.extractedData.category = <<"S","h","o","p","p","i","n","g">>

\* C10 as stated: the same, with every text holding 'amazon prime' Shopping
C10_AmazonPrimeAlwaysShopping ==
  ReceiptDone =>
    /\ res.extractedData.category
         = FirstRuleCategory(res.extractedData.merchantName)
    /\ CategoryExamples
    /\ Includes(ToLowerCase(res.extractedData.merchantName),
                <<"a","m","a","z","o","n"," ","p","r","i","m","e">>) =>
         res.extractedData.category = <<"S","h","o","p","p","i","n","g">>

\* a name that holds 'amazon prime' and a keyword of a later rule, classified
\* by the earlier rule
C10_Witness ==
  /\ ReceiptDone
  /\ Includes(ToLowerCase(res.extractedData.merchantName), <<"a","m","a","z","o","n"," ","p","r","i","m","e">>)
  /\ Includes(ToLowerCase(res.extractedData.merchantName), <<"n","e","t","f","l","i","x">>)
  /\ res.extractedData.category = <<"S","h","o","p","p","i","n","g">>

\* the names the classifier may return: the expense categories, Income, Other
ClassifierNames ==
  Range(getExpenseCategories) \cup {<<"I","n","c","o","m","e">>, <<"O","t","h","e","r">>}

\* C11: the category the classifier returns is one of the expense categories
\* of Transaction.getExpenseCategories, or Income, or Other
C11_ClassifierInExpenseList ==
  ReceiptDone => res.extractedData.category \in ClassifierNames

\* a merchant name with a fitness keyword, classified Health & Fitness
C11_Witness ==
  /\ ReceiptDone
  /\ res.extractedData.merchantName = <<"G","y","m">>
  /\ res.extractedData.category = <<"H","e","a","l","t","h"," ","&"," ","F","i","t","n","e","s","s">>
  /\ res.extractedData.category \notin ClassifierNames

\* the fixed taxonomy: the expense list, the income list, and Other
Taxonomy ==
  Range(getExpenseCategories) \cup Range(getIncomeCategories) \cup {<<"O","t","h","e","r">>}

\* the categories of the records an answered upload carries
CategoriesAnswered ==
  IF ReceiptDone
    THEN {res.extractedData.category, res.suggestedTransaction.category}
    ELSE IF PdfDone \/ CsvDone
      THEN {res.transactions[i].category : i \in 1..Len(res.transactions)}
      ELSE {}

\* C12: the category of every record of the receipt, the CSV and the PDF path
\* is in the fixed taxonomy or is Other
C12_CategoryInTaxonomy ==
  CategoriesAnswered \subseteq Taxonomy

\* a CSV row's own category field is handed through, and an income record is
\* given the category Income, which neither list holds
C12_Witness ==
  /\ CsvDone
  /\ file.path = << GroceryRow, CHOOSE r \in CsvRows : categoryFieldOf(r) = <<"F","u","n">> >>
  /\ Len(res.transactions) = 2
  /\ res.transactions[1].category \in Taxonomy
  /\ res.transactions[2].category = <<"F","u","n">>
  /\ res.transactions[2].category \notin Taxonomy
  /\ <<"I","n","c","o","m","e">> \notin Taxonomy

\* what the request declares: its media type and its file name
DeclaredImage(f) == StartsWith(f.mimetype, <<"i","m","a","g","e","/">>)
DeclaredPdf(f) == f.mimetype = <<"a","p","p","l","i","c","a","t","i","o","n","/","p","d","f">>
DeclaredCsv(f) == f.mimetype = <<"t","e","x","t","/","c","s","v">>
NamedCsv(f) == EndsWith(ToLowerCase(f.originalname), <<".","c","s","v">>)

\* the path a request has taken, read from where it stands or how it ended
PathTaken ==
  IF pc = "ocr" \/ ReceiptDone THEN "receipt"
  ELSE IF pc = "pdf" \/ PdfDone THEN "statement"
  ELSE IF pc = "csv" \/ CsvDone THEN "tabular"
  ELSE IF pc = "responded" /\ res.status = 400 THEN "refused"
  ELSE IF pc = "responded" /\ res.status = 500 /\ thrown = "" THEN "unsupported"
  ELSE IF pc = "responded" /\ res.error = "Failed to extract data from receipt" THEN "receipt"
  ELSE IF pc = "responded" /\ res.error = "Failed to parse PDF transaction history" THEN "statement"
  ELSE IF pc = "responded" THEN "tabular"
  ELSE "none"

\* a response that carries a parse result
HasParseResult ==
  \E k \in {"extractedData", "suggestedTransaction", "transactions"} : k \in DOMAIN res

\* a request with a file part is under way or answered
Uploading == pc # "idle" /\ sent # NoFile

\* the path the filter and the order of the route's tests give a request
PathDue(f) ==
  IF f.mimetype \notin allowedTypes THEN "refused"
  ELSE IF DeclaredCsv(f) \/ NamedCsv(f) THEN "tabular"
  ELSE IF DeclaredPdf(f) THEN "statement"
  ELSE IF DeclaredImage(f) THEN "receipt"
  ELSE "unsupported"

C14_FileDeletedBeforeResponse ==
  /\ pc \in {"responded", "idle"} => ~stored
  /\ stored => pc \in {"ocr", "pdf", "csv"} /\ file # NoFile /\ res = NoResponse

\* a stored PDF whose engine failed: answered 500, the file gone
C14_Witness ==
  /\ pc = "responded"
  /\ file \in StatementUploads
  /\ thrown = "Invalid PDF structure"
  /\ res.status = 500
  /\ ~stored

\* the OCR engine or the PDF engine failed and the upload is answered
EngineFailed ==
  /\ pc = "responded"
  /\ thrown # ""
  /\ file \in ReceiptUploads \cup StatementUploads

\* C15: when the OCR or the PDF engine fails the upload fails: the one
\* response is an error without extractedData, suggestedTransaction or
\* transactions, and it carries the engine's own error message
C15_EngineMessageSurfaced ==
  EngineFailed =>
    /\ res.status = 500
    /\ ~HasParseResult
    /\ res.error = thrown

\* Tesseract rejected; the response carries the fixed message of the catch
C15_Witness ==
  /\ EngineFailed
  /\ file \in ReceiptUploads
  /\ thrown = "Error attempting to read image."
  /\ res = ErrorResponse("Failed to extract data from receipt")
  /\ ~HasParseResult

\* a stored file of a handled type is answered and neither the engine nor
\* the stream failed
AnsweredNoFailure ==
  /\ pc = "responded"
  /\ file # NoFile
  /\ thrown = ""
  /\ PathDue(file) \in {"receipt", "statement", "tabular"}

\* a number that is neither NaN nor infinite nor negative
PlainAmount(a) == a.k = "num" /\ ~Gt(Zero, a)

\* the receipt result is whole: a total, a valid date, items with a name and
\* a positive amount
ReceiptWhole(d) ==
  /\ PlainAmount(d.total)
  /\ ~IsInvalidDate(d.date)
  /\ d.merchantName # Undefined
  /\ \A i \in 1..Len(d.items) :
       d.items[i].name # Undefined /\ Gt(d.items[i].amount, Zero)
  /\ Len(d.items) <= Len(CleanLines(file.path))
  /\ d.rawText = file.path

\* the groups the statement extractor trims and strips are there whenever a
\* pattern matches, so neither trim nor replace is called on undefined
PdfGroupsThere(line) ==
  LET m == PdfFirstMatch(line)
  IN m # <<>> => Len(m) = 4 /\ m[2] # Undefined /\ m[3] # Undefined /\ m[4] # Undefined

CsvDateBad(row) ==
  /\ TruthyStr(dateFieldOf(row))
  /\ IsInvalidDate(DateParse(dateFieldOf(row)))
  /\ \A j \in 1..Len(dateFormats) :
       LET m == StringMatch(dateFieldOf(row), dateFormats[j])
       IN m = <<>> \/ IsInvalidDate(DateParse(MatchIndex(m, 1)))

\* a row with all three fields, a date that parses and a usable amount
CsvGoodRow(row) == CsvEmits(row) /\ ~CsvDateBad(row)

\* a CSV or PDF upload whose engine and stream did not fail is answered 200
ListNoError ==
  (pc = "responded" /\ thrown = "" /\ PathDue(sent) \in {"statement", "tabular"}) =>
    res.status = 200

\* C17: a statement line with a bad date, a bad amount or no match, and a CSV
\* row with a bad amount, a blank description or a missing field, gives no
\* record and no error; a CSV row complete but for a date that does not
\* parse is kept, dated with the current time
C17_BadRowHandling ==
  /\ ListNoError
  /\ PdfDone => Len(res.transactions) = Len(PdfSources)
  /\ CsvRunning =>
       /\ Len(results) = Len(CsvSources)
       /\ \A k \in 1..Len(results) :
            IF CsvDateBad(CsvSources[k])
            THEN results[k].date.k = "now"
            ELSE results[k].date.k # "now"

\* C17 as stated: in both extractors a bad date, a bad amount or a missing
\* field skips the row or line
C17_BadRowSkipped ==
  /\ ListNoError
  /\ PdfDone => Len(res.transactions) = Len(PdfSources)
  /\ CsvRunning => Len(results) = Len(SelectSeq(RowsSoFar, CsvGoodRow))

\* the one row with the date n/a is answered with one record dated now
C17_Witness ==
  /\ CsvDone
  /\ Len(file.path) = 1
  /\ dateFieldOf(file.path[1]) = <<"n","/","a">>
  /\ CsvDateBad(file.path[1])
  /\ res.count = 1
  /\ res.transactions[1].date.k = "now"

\* a calendar date or the time of the call, never the invalid date
ValidDate(d) ==
  \/ d.k = "now" /\ d.t \in Times
  \/ d.k = "date" /\ d.m \in 1..12 /\ d.d \in 1..DaysInMonth(d.y, d.m)

\* the first of the ordered fallback patterns whose capture parses, tried on
\* the raw date field; the invalid date when there is none
FallbackDate(dateField) ==
  LET hits == {j \in 1..Len(dateFormats) :
                 LET m == StringMatch(dateField, dateFormats[j])
                 IN m # <<>> /\ ~IsInvalidDate(DateParse(MatchIndex(m, 1)))}
  IN IF hits = {} THEN InvalidDate
     ELSE DateParse(MatchIndex(StringMatch(dateField, dateFormats[MinOf(hits)]), 1))

\* the date the claim gives a CSV row: the direct parse, else the fallback,
\* else the current time
CsvDateDue(row, d) ==
  IF ~IsInvalidDate(DateParse(dateFieldOf(row))) THEN d = DateParse(dateFieldOf(row))
  ELSE IF ~IsInvalidDate(FallbackDate(dateFieldOf(row))) THEN d = FallbackDate(dateFieldOf(row))
  ELSE d.k = "now"

\* C18: the date of every CSV record and of every extracted receipt is a
\* valid date: the direct parse of the CSV date field, else the first
\* fallback pattern that parses on the raw field, else the current time; a
\* receipt without a dated line has the current time
C18_DatesValid ==
  /\ CsvRunning =>
       /\ Len(results) = Len(CsvSources)
       /\ \A k \in 1..Len(results) :
            /\ ValidDate(results[k].date)
            /\ CsvDateDue(CsvSources[k], results[k].date)
  /\ ReceiptDone =>
       /\ ValidDate(res.extractedData.date)
       /\ ValidDate(res.suggestedTransaction.date)
       /\ DatedLines(CleanLines(file.path)) = {} => res.extractedData.date.k = "now"

\* the date field '01/18/2024 posted' does not parse directly and is dated
\* by the fallback pattern
C18_Witness ==
  /\ CsvDone
  /\ Len(file.path) = 1
  /\ dateFieldOf(file.path[1]) = <<"0","1","/","1","8","/","2","0","2","4"," ","p","o","s","t","e","d">>
  /\ IsInvalidDate(DateParse(dateFieldOf(file.path[1])))
  /\ res.count = 1
  /\ res.transactions[1].date = [k |-> "date", m |-> 1, d |-> 18, y |-> 2024, zone |-> "local"]

\* a date with the clock reading taken out
UnclockDate(d) == IF d.k = "now" THEN DateNow(1) ELSE d

\* a response with every clock reading taken out of its dates
Unclock(r) ==
  IF r.type = "receipt"
  THEN [r EXCEPT !.extractedData.date = UnclockDate(@),
                 !.suggestedTransaction.date = UnclockDate(@)]
  ELSE [r EXCEPT !.transactions = [k \in 1..Len(@) |-> AtFirst(@[k])]]

\* the file has been uploaded twice and answered twice
AnsweredTwice == pc = "responded" /\ prev # NoResponse /\ res.status = 200

Offered ==
  IF pc # "responded" \/ res.status # 200 THEN {}
  ELSE IF res.type = "receipt" THEN {Stored(res.suggestedTransaction)}
  ELSE {Stored(res.transactions[i]) : i \in 1..Len(res.transactions)}

\* C20: no step of an upload changes the stored transactions, whatever the
\* file and the outcome; the store changes only in a later explicit request
\* (add-single, bulk-import, selective-import, POST /api/transactions), which
\* appends transactions the client was given
C20_UploadLeavesStore ==
  [][/\ (pc # "responded" \/ pc' # "responded") => db' = db
     /\ db' # db =>
          /\ res' = res
          /\ reply'.status \in {200, 201}
          /\ Len(db') > Len(db)
          /\ SubSeq(db', 1, Len(db)) = db
          /\ \A k \in (Len(db) + 1)..Len(db') : db'[k] \in Offered]_vars

\* an upload answered while the store holds a transaction of an earlier
\* import, before any import of its own
C20_Witness ==
  /\ pc = "responded"
  /\ res.status = 200
  /\ reply = NoResponse
  /\ db # <<>>
  /\ \A k \in 1..Len(db) : db[k] \notin Offered

\* the last storing request carried an amount that is zero or negative
ZeroAmountRefused ==
  /\ pc = "responded"
  /\ res.status = 200
  /\ res.type = "receipt"
  /\ res.suggestedTransaction.amount = Zero
  /\ reply.status = 400

\* C21: after any sequence of add-single, bulk-import, selective-import and
\* POST /api/transactions requests every stored transaction has an amount
\* above zero; the zero-amount suggestion of a receipt without a total is
\* refused and the store holds no transaction of amount zero
C21_StoredAmountsPositive ==
  /\ \A k \in 1..Len(db) : db[k].amount.k = "num" /\ Gt(db[k].amount, Zero)
  /\ (pc = "responded" /\ res.status = 200 /\ res.type = "receipt"
        /\ res.suggestedTransaction.amount = Zero /\ reply # NoResponse) =>
       reply.status \in {400, 500} /\ "transaction" \notin DOMAIN reply

\* the suggestion of the receipt 'Whole Foods Market', amount zero, was sent
\* and refused while the store holds another transaction
C21_Witness ==
  /\ ZeroAmountRefused
  /\ file.path = <<<<"W","h","o","l","e"," ","F","o","o","d","s"," ","M","a","r","k","e","t">>>>
  /\ db # <<>>

\* the category the rule gives the record r of the row: the row's own
\* category when it has one, else Income for income, else the classifier's
\* answer on the description
CategoryDue(row, r) ==
  IF TruthyStr(categoryFieldOf(row)) THEN categoryFieldOf(row)
  ELSE IF r.type = "income" THEN <<"I","n","c","o","m","e">>
  ELSE determineCategory(descriptionFieldOf(row))

\* C23: the category of every CSV record is the row's category field when
\* the row has one, whatever the polarity; otherwise Income for an income
\* record and otherwise the classifier's result on the description
C23_CsvCategoryRule ==
  CsvRunning =>
    /\ Len(results) = Len(CsvSources)
    /\ \A k \in 1..Len(results) :
         results[k].category = CategoryDue(CsvSources[k], results[k])

\* an income row with its own category Travel, then the grocery row: Travel
\* and Food & Dining
C23_Witness ==
  /\ CsvDone
  /\ Len(res.transactions) = 2
  /\ categoryFieldOf(file.path[1]) = <<"T","r","a","v","e","l">>
  /\ res.transactions[1].type = "income"
  /\ res.transactions[1].category = <<"T","r","a","v","e","l">>
  /\ file.path[2] = GroceryRow
  /\ res.transactions[2].category = <<"F","o","o","d"," ","&"," ","D","i","n","i","n","g">>

RECURSIVE FirstNonEmpty(_, _)
\* the first line of the text from line i on that is not blank, trimmed; the
\* empty string when there is none
FirstNonEmpty(text, i) ==
  IF i > Len(text) THEN <<>>
  ELSE IF Trim(text[i]) # <<>> THEN Trim(text[i])
  ELSE FirstNonEmpty(text, i + 1)

\* the first n characters of s
CutTo(s, n) == [i \in 1..(IF Len(s) < n THEN Len(s) ELSE n) |-> s[i]]

\* C24: merchantName is the first non-empty trimmed line of the OCR text cut
\* to at most 50 characters, the empty string when there is no such line,
\* and the category is the classifier's result on that merchantName
C24_MerchantName ==
  ReceiptDone =>
    /\ res.extractedData.merchantName = CutTo(FirstNonEmpty(file.path, 1), 50)
    /\ Len(res.extractedData.merchantName) <= 50
    /\ res.extractedData.category = determineCategory(res.extractedData.merchantName)

\* a first line of 52 characters that ends in Cafe: the name is cut inside
\* the word and the category is Other
C24_Witness ==
  /\ ReceiptDone
  /\ Len(FirstNonEmpty(file.path, 1)) = 52
  /\ Includes(ToLowerCase(FirstNonEmpty(file.path, 1)), <<"c","a","f","e">>)
  /\ Len(res.extractedData.merchantName) = 50
  /\ res.extractedData.category = <<"O","t","h","e","r">>

(***************************************************************************)
(* routes/categories.js: the custom categories of each user, kept in       *)
(* memory, and the four routes on them.                                    *)
(***************************************************************************)
\* the most custom categories held at a time, all users together
MaxCategories == 2
\* the last reading of Date.now() when a category is created
MaxStamp == 2

\* what the upload pipeline holds
uploadState == <<pc, file, stored, csvPos, results, res, sent, thrown, prev>>

\* the default lists of GET /api/categories, written out again in the route
defaultExpenseCategories == getExpenseCategories
defaultIncomeCategories == getIncomeCategories

\* the names a client sends: two that differ in case only, one to be trimmed,
\* and the empty one
CategoryNames == {<<"P","e","t","s">>, <<"P","E","T","S">>, <<" ","T","o","y","s">>, <<>>}
\* the types a client sends
CategoryTypes == {"expense", "income", "savings"}

\* the ids of the categories held, of all users
CategoryIds ==
  UNION {{userCategories[u][ty][i].id : i \in 1..Len(userCategories[u][ty])} : u \in AllUsers, ty \in {"expense", "income"}}

\* the readings Date.now() can give: not before the id of a category held
Stamps == {t \in 1..MaxStamp : \A i \in CategoryIds : i <= t}

RECURSIVE CategoryCount(_)
\* the number of categories held by the users us
CategoryCount(us) ==
  IF us = {} THEN 0
  ELSE LET u == CHOOSE v \in us : TRUE
       IN Len(userCategories[u].expense) + Len(userCategories[u].income) + CategoryCount(us \ {u})

\* body('name').trim().isLength({ min: 1, max: 50 })
NameValid(name) == Len(name) >= 1 /\ Len(name) <= 50

\* userCats[type].some(cat => cat.name.toLowerCase() === name.toLowerCase())
CategoryExists(cats, name) ==
  \E i \in 1..Len(cats) : ToLowerCase(cats[i].name) = ToLowerCase(name)

\* cats.findIndex(cat => cat.id === categoryId), 0 for -1
RECURSIVE FindIndex(_, _, _)
FindIndex(cats, id, i) ==
  IF i > Len(cats) THEN 0
  ELSE IF cats[i].id = id THEN i
  ELSE FindIndex(cats, id, i + 1)

\* GET /api/categories: the default lists, each followed by the custom
\* categories of the user
CategoriesGet(u) ==
  /\ reply' = [status |-> 200,
               expense |-> defaultExpenseCategories \o userCategories[u].expense,
               income |-> defaultIncomeCategories \o userCategories[u].income,
               custom |-> userCategories[u]]
  /\ UNCHANGED <<uploadState, db, page, others>>

\* the handler of POST /api/categories; name is the trimmed name
CategoryPostStep(u, name, type, t) ==
  IF ~(NameValid(name) /\ type \in {"income", "expense"})
  THEN /\ reply' = [status |-> 400, message |-> "validation errors"]
       /\ UNCHANGED userCategories
  ELSE IF CategoryExists(userCategories[u][type], name)
  THEN /\ reply' = [status |-> 400, message |-> "Category already exists"]
       /\ UNCHANGED userCategories
  ELSE /\ reply' = [status |-> 201, message |-> "Category created successfully", category |-> [id |-> t, name |-> name]]
       /\ userCategories' = [userCategories EXCEPT ![u][type] = Append(@, [id |-> t, name |-> name])]

\* POST /api/categories
CategoryPost(u) ==
  /\ CategoryCount(AllUsers) < MaxCategories
  /\ \E name \in CategoryNames, type \in CategoryTypes, t \in Stamps :
       CategoryPostStep(u, Trim(name), type, t)
  /\ UNCHANGED <<uploadState, db, page, users, inflight, created>>

\* the category at index i of cats renamed when i is an index and a name was
\* sent: if (name) ... .name = name
Renamed(cats, i, name) ==
  IF i = 0 \/ name = Undefined \/ name = <<>> THEN cats
  ELSE [cats EXCEPT ![i].name = name]

\* the handler of PUT /api/categories/:id; name is the trimmed name, or
\* Undefined
CategoryPutStep(u, id, name) ==
  IF name # Undefined /\ ~NameValid(name)
  THEN /\ reply' = [status |-> 400, message |-> "validation errors"]
       /\ UNCHANGED userCategories
  ELSE IF FindIndex(userCategories[u].expense, id, 1) = 0 /\ FindIndex(userCategories[u].income, id, 1) = 0
  THEN /\ reply' = [status |-> 404, message |-> "Category not found"]
       /\ UNCHANGED userCategories
  ELSE /\ reply' = [status |-> 200, message |-> "Category updated successfully"]
       /\ userCategories' = [userCategories EXCEPT ![u] =
            [expense |-> Renamed(@.expense, FindIndex(@.expense, id, 1), name),
             income |-> Renamed(@.income, FindIndex(@.income, id, 1), name)]]

\* PUT /api/categories/:id
CategoryPut(u) ==
  /\ \E id \in 1..MaxStamp, name \in CategoryNames \cup {Undefined} :
       CategoryPutStep(u, id, IF name = Undefined THEN name ELSE Trim(name))
  /\ UNCHANGED <<uploadState, db, page, users, inflight, created>>

\* cats.splice(i, 1) when i is an index
Spliced(cats, i) ==
  IF i = 0 THEN cats ELSE SubSeq(cats, 1, i - 1) \o SubSeq(cats, i + 1, Len(cats))

\* the handler of DELETE /api/categories/:id
CategoryDeleteStep(u, id) ==
  IF FindIndex(userCategories[u].expense, id, 1) = 0 /\ FindIndex(userCategories[u].income, id, 1) = 0
  THEN /\ reply' = [status |-> 404, message |-> "Category not found"]
       /\ UNCHANGED userCategories
  ELSE /\ reply' = [status |-> 200, message |-> "Category deleted successfully"]
       /\ userCategories' = [userCategories EXCEPT ![u] =
            [expense |-> Spliced(@.expense, FindIndex(@.expense, id, 1)),
             income |-> Spliced(@.income, FindIndex(@.income, id, 1))]]

\* DELETE /api/categories/:id
CategoryDelete(u) ==
  /\ \E id \in 1..MaxStamp : CategoryDeleteStep(u, id)
  /\ UNCHANGED <<uploadState, db, page, users, inflight, created>>

NextCategories ==
  \/ \E u \in AllUsers : CategoriesGet(u)
  \/ \E u \in AllUsers : CategoryPost(u)
  \/ \E u \in AllUsers : CategoryPut(u)
  \/ \E u \in AllUsers : CategoryDelete(u)

SpecCategories == Init /\ [][NextCategories]_vars

\* the names both fixed lists hold
InBothLists == Range(getExpenseCategories) \cap Range(getIncomeCategories)

\* GET /api/categories has answered
CategoriesListed == reply.status = 200 /\ "custom" \in DOMAIN reply

\* the names both default lists of the answer hold
InBothDefaults ==
  Range(SubSeq(reply.expense, 1, Len(defaultExpenseCategories))) \cap Range(SubSeq(reply.income, 1, Len(defaultIncomeCategories)))

\* C22: the expense categories and the income categories are disjoint apart
\* from Other, which is in each
C22_DisjointButOther ==
  /\ InBothLists = {<<"O","t","h","e","r">>}
  /\ CategoriesListed => InBothDefaults = {<<"O","t","h","e","r">>}

\* C22, amended: the expense categories and the income categories are
\* disjoint apart from Other and Business, which are in each
C22_DisjointButOtherAndBusiness ==
  /\ InBothLists = {<<"O","t","h","e","r">>, <<"B","u","s","i","n","e","s","s">>}
  /\ CategoriesListed => InBothDefaults = {<<"O","t","h","e","r">>, <<"B","u","s","i","n","e","s","s">>}

\* the categories were listed, and Business is among the expense and among
\* the income categories of the answer
C22_Witness ==
  /\ CategoriesListed
  /\ \E i \in 1..Len(defaultExpenseCategories) : reply.expense[i] = <<"B","u","s","i","n","e","s","s">>
  /\ \E i \in 1..Len(defaultIncomeCategories) : reply.income[i] = <<"B","u","s","i","n","e","s","s">>

\* the custom categories cats hold no two names equal ignoring case
NoTwoAlike(cats) ==
  \A i, j \in 1..Len(cats) : i # j => ToLowerCase(cats[i].name) # ToLowerCase(cats[j].name)

\* C28: no user has two custom categories of the same type whose names are
\* equal ignoring case
C28_NoDuplicateNames ==
  \A u \in AllUsers : NoTwoAlike(userCategories[u].expense) /\ NoTwoAlike(userCategories[u].income)

\* a user holds two categories of a type, created under names that differ
C28_Witness ==
  \E u \in AllUsers : \E ty \in {"expense", "income"} : Len(userCategories[u][ty]) = 2

(***************************************************************************)
(* routes/transactions.js: the router of /api/transactions, its routes in  *)
(* the order they are registered, and the requests of two users.  The ids  *)
(* t1, t2, ... stand for the ObjectIds MongoDB gives out.                  *)
(***************************************************************************)
\* the most transactions created in a run
MaxCreated == 3

Digits == <<"1", "2", "3", "4", "5", "6", "7", "8", "9">>
\* the _id of the i-th transaction created
IdOf(i) == <<"t", Digits[i]>>
\* the path segments that cast to an ObjectId
ObjectIds == {IdOf(i) : i \in 1..Len(Digits)}

\* router.METHOD(path, auth, ...) in the order of the file
Routes == <<
  [method |-> "POST", path |-> <<>>],
  [method |-> "GET", path |-> <<>>],
  [method |-> "GET", path |-> <<<<":","i","d">>>>],
  [method |-> "PUT", path |-> <<<<":","i","d">>>>],
  [method |-> "DELETE", path |-> <<<<":","i","d">>>>],
  [method |-> "GET", path |-> <<<<"a","n","a","l","y","t","i","c","s">>, <<"s","u","m","m","a","r","y">>>>],
  [method |-> "GET", path |-> <<<<"c","a","t","e","g","o","r","i","e","s">>>>],
  [method |-> "POST", path |-> <<<<"b","u","l","k">>>>],
  [method |-> "DELETE", path |-> <<<<"b","u","l","k">>>>],
  [method |-> "PUT", path |-> <<<<"b","u","l","k">>>>],
  [method |-> "GET", path |-> <<<<"a","n","a","l","y","t","i","c","s">>, <<"y","e","a","r","l","y">>>>],
  [method |-> "GET", path |-> <<<<"a","n","a","l","y","t","i","c","s">>, <<"c","a","t","e","g","o","r","y","-","t","r","e","n","d","s">>>>],
  [method |-> "GET", path |-> <<<<"s","e","a","r","c","h">>>>] >>

\* Express: the route takes the request when the methods agree and every
\* segment of the path is the route's own or stands under a parameter
RouteMatches(route, method, path) ==
  /\ route.method = method
  /\ Len(route.path) = Len(path)
  /\ \A i \in 1..Len(path) : route.path[i] = <<":","i","d">> \/ route.path[i] = path[i]

RECURSIVE FirstRoute(_, _, _)
\* the first route from k on that takes the request, 0 when none does
FirstRoute(method, path, k) ==
  IF k > Len(Routes) THEN 0
  ELSE IF RouteMatches(Routes[k], method, path) THEN k
  ELSE FirstRoute(method, path, k + 1)

\* the document saved for user u under _id id: the user of the request takes
\* the place of any user of the body
OwnedBy(doc, u, id) ==
  [k \in DOMAIN doc \cup {"_id"} |-> IF k = "_id" THEN id ELSE IF k = "user" THEN u ELSE doc[k]]

RECURSIVE OwnedAll(_, _, _)
\* the documents docs saved for user u, the first of them as number n
OwnedAll(docs, u, n) ==
  IF docs = <<>> THEN <<>>
  ELSE <<OwnedBy(Head(docs), u, IdOf(n))>> \o OwnedAll(Tail(docs), u, n + 1)

\* the creators of n more documents of user u
Creators(u, n) == [i \in 1..n |-> u]

RECURSIVE FindDoc(_, _, _, _)
\* findOne({_id: id, user: u}): the index in docs from i on, 0 when none
FindDoc(docs, id, u, i) ==
  IF i > Len(docs) THEN 0
  ELSE IF docs[i]._id = id /\ docs[i].user = u THEN i
  ELSE FindDoc(docs, id, u, i + 1)

\* a body of POST /api/transactions
ApiBody ==
  [type |-> "expense", amount |-> Num(12, 0), category |-> <<"F","o","o","d"," ","&"," ","D","i","n","i","n","g">>,
   description |-> <<" ","L","u","n","c","h">>, date |-> DateParse(<<"2","0","2","4","-","0","1","-","1","5">>), paymentMethod |-> "cash"]

\* the same body with a user field
WithUser(t, u) == [k \in DOMAIN t \cup {"user"} |-> IF k = "user" THEN u ELSE t[k]]

\* the bodies a client sends to create a transaction: a valid one, one that
\* names a user, one with amount zero
CreateBodies(u) ==
  {ApiBody, [ApiBody EXCEPT !.amount = Zero]} \cup {WithUser(ApiBody, v) : v \in AllUsers \ {u}}

\* the bodies a client sends to update a transaction: a new amount, an
\* amount of zero, a user
UpdateBodies(u) ==
  {[amount |-> Num(7, 0)], [amount |-> Zero]} \cup {[user |-> v] : v \in AllUsers \ {u}}

\* the optional validators of PUT /:id, of which the bodies carry amount only
UpdateValid(body) ==
  "amount" \in DOMAIN body => body.amount.k = "num" /\ ~Gt(MinAmount, body.amount)

\* Object.keys(req.body).forEach(key => transaction[key] = req.body[key])
Assigned(doc, body) ==
  [k \in DOMAIN doc |-> IF k \in DOMAIN body THEN body[k] ELSE doc[k]]

\* POST /: the handler of route 1
CreateAs(u, body) ==
  IF ~BodyValid(body)
  THEN /\ reply' = [status |-> 400, route |-> 1, message |-> "validation errors"]
       /\ UNCHANGED <<db, created>>
  ELSE IF SchemaValid(body)
  THEN /\ reply' = [status |-> 201, route |-> 1, message |-> "Transaction created successfully"]
       /\ db' = Append(db, OwnedBy(Stored(body), u, IdOf(Len(created) + 1)))
       /\ created' = Append(created, u)
  ELSE /\ reply' = [status |-> 500, route |-> 1, message |-> "Server error creating transaction"]
       /\ UNCHANGED <<db, created>>

\* GET /:id: the handler of route 3; a segment that is no ObjectId is a
\* CastError
GetOne(u, id) ==
  /\ reply' = IF id \in ObjectIds /\ FindDoc(db, id, u, 1) # 0
              THEN [status |-> 200, route |-> 3, transaction |-> db[FindDoc(db, id, u, 1)]]
              ELSE [status |-> 404, route |-> 3, message |-> "Transaction not found"]
  /\ UNCHANGED <<db, created>>

\* PUT /:id: the handler of route 4, i the index of the document found
UpdateOne(u, id, body, i) ==
  IF ~UpdateValid(body)
  THEN /\ reply' = [status |-> 400, route |-> 4, message |-> "validation errors"]
       /\ UNCHANGED <<db, created>>
  ELSE IF id \notin ObjectIds \/ i = 0
  THEN /\ reply' = [status |-> 404, route |-> 4, message |-> "Transaction not found"]
       /\ UNCHANGED <<db, created>>
  ELSE IF SchemaValid(Assigned(db[i], body))
  THEN /\ reply' = [status |-> 200, route |-> 4, message |-> "Transaction updated successfully"]
       /\ db' = [db EXCEPT ![i] = Assigned(@, body)]
       /\ UNCHANGED created
  ELSE /\ reply' = [status |-> 500, route |-> 4, message |-> "Server error updating transaction"]
       /\ UNCHANGED <<db, created>>

\* DELETE /:id: the handler of route 5, i the index of the document found
DeleteOne(u, id, i) ==
  IF id \notin ObjectIds \/ i = 0
  THEN /\ reply' = [status |-> 404, route |-> 5, message |-> "Transaction not found"]
       /\ UNCHANGED <<db, created>>
  ELSE /\ reply' = [status |-> 200, route |-> 5, message |-> "Transaction deleted successfully"]
       /\ db' = SubSeq(db, 1, i - 1) \o SubSeq(db, i + 1, Len(db))
       /\ UNCHANGED created

\* GET /categories: the handler of route 7
GetCategories ==
  /\ reply' = [status |-> 200, route |-> 7, expense |-> getExpenseCategories, income |-> getIncomeCategories]
  /\ UNCHANGED <<db, created>>

\* every transaction of the list passes the validators and the schema
AllValid(ts) == \A i \in 1..Len(ts) : BodyValid(ts[i]) /\ SchemaValid(ts[i])

RECURSIVE StoredAll(_)
\* the documents of the transactions ts
StoredAll(ts) == IF ts = <<>> THEN <<>> ELSE <<Stored(Head(ts))>> \o StoredAll(Tail(ts))

\* POST /bulk: the handler of route 8; insertMany stores all or none
BulkCreate(u, transactions) ==
  IF transactions = <<>> \/ \E i \in 1..Len(transactions) : ~BodyValid(transactions[i])
  THEN /\ reply' = [status |-> 400, route |-> 8, message |-> "validation errors"]
       /\ UNCHANGED <<db, created>>
  ELSE IF AllValid(transactions)
  THEN /\ reply' = [status |-> 201, route |-> 8, count |-> Len(transactions)]
       /\ db' = db \o OwnedAll(StoredAll(transactions), u, Len(created) + 1)
       /\ created' = created \o Creators(u, Len(transactions))
  ELSE /\ reply' = [status |-> 500, route |-> 8, message |-> "Server error creating transactions"]
       /\ UNCHANGED <<db, created>>

\* the documents deleteMany({_id: {$in: ids}, user: u}) leaves
Remaining(docs, ids, u) == SelectSeq(docs, LAMBDA d : ~(d._id \in ids /\ d.user = u))

\* DELETE /bulk: the handler of route 9
BulkDelete(u, transactionIds) ==
  IF transactionIds = <<>>
  THEN /\ reply' = [status |-> 400, route |-> 9, message |-> "validation errors"]
       /\ UNCHANGED <<db, created>>
  ELSE /\ reply' = [status |-> 200, route |-> 9, deletedCount |-> Len(db) - Len(Remaining(db, Range(transactionIds), u))]
       /\ db' = Remaining(db, Range(transactionIds), u)
       /\ UNCHANGED created

\* findOneAndUpdate({_id: update.id, user: u}, update.data) on every document
UpdatedAll(docs, updates, u) ==
  [i \in 1..Len(docs) |->
     IF \E j \in 1..Len(updates) : updates[j].id = docs[i]._id /\ docs[i].user = u
     THEN Assigned(docs[i], updates[CHOOSE j \in 1..Len(updates) : updates[j].id = docs[i]._id].data)
     ELSE docs[i]]

\* PUT /bulk: the handler of route 10
BulkUpdate(u, updates) ==
  IF updates = <<>>
  THEN /\ reply' = [status |-> 400, route |-> 10, message |-> "validation errors"]
       /\ UNCHANGED <<db, created>>
  ELSE /\ reply' = [status |-> 200, route |-> 10, message |-> "transactions updated successfully"]
       /\ db' = UpdatedAll(db, updates, u)
       /\ UNCHANGED created

\* GET /search: the handler of route 13; q is looked for in description and
\* category without regard to case
Search(u, q) ==
  /\ reply' = IF q = <<>>
              THEN [status |-> 400, route |-> 13, message |-> "validation errors"]
              ELSE [status |-> 200, route |-> 13, query |-> q,
                    transactions |-> SelectSeq(db, LAMBDA d : d.user = u /\ (Includes(ToLowerCase(d.description), ToLowerCase(q)) \/ Includes(ToLowerCase(d.category), ToLowerCase(q))))]
  /\ UNCHANGED <<db, created>>

\* the body of a request that has none
NoBody == [none |-> TRUE]

\* the requests user u sends to /api/transactions
ApiRequests(u) ==
  {[method |-> "POST", path |-> <<>>, body |-> b, q |-> <<>>] : b \in CreateBodies(u)}
  \cup {[method |-> "PUT", path |-> <<IdOf(i)>>, body |-> b, q |-> <<>>] : i \in 1..MaxCreated, b \in UpdateBodies(u)}
  \cup {[method |-> m, path |-> <<IdOf(i)>>, body |-> NoBody, q |-> <<>>] : m \in {"GET", "DELETE"}, i \in 1..MaxCreated}
  \cup {[method |-> "GET", path |-> <<<<"c","a","t","e","g","o","r","i","e","s">>>>, body |-> NoBody, q |-> <<>>],
        [method |-> "GET", path |-> <<<<"s","e","a","r","c","h">>>>, body |-> NoBody, q |-> <<"l","u","n","c","h">>],
        [method |-> "POST", path |-> <<<<"b","u","l","k">>>>, body |-> [transactions |-> <<ApiBody, WithUser(ApiBody, "B")>>], q |-> <<>>],
        [method |-> "DELETE", path |-> <<<<"b","u","l","k">>>>, body |-> [transactionIds |-> <<IdOf(1), IdOf(2)>>], q |-> <<>>],
        [method |-> "PUT", path |-> <<<<"b","u","l","k">>>>, body |-> [updates |-> <<[id |-> IdOf(1), data |-> [amount |-> Num(7, 0)]]>>], q |-> <<>>]}

\* the handler of route k on the request
Handle(k, u, r) ==
  IF k = 1 THEN CreateAs(u, r.body)
  ELSE IF k = 3 THEN GetOne(u, r.path[1])
  ELSE IF k = 4 THEN UpdateOne(u, r.path[1], r.body, FindDoc(db, r.path[1], u, 1))
  ELSE IF k = 5 THEN DeleteOne(u, r.path[1], FindDoc(db, r.path[1], u, 1))
  ELSE IF k = 7 THEN GetCategories
  ELSE IF k = 8 THEN BulkCreate(u, r.body.transactions)
  ELSE IF k = 9 THEN BulkDelete(u, r.body.transactionIds)
  ELSE IF k = 10 THEN BulkUpdate(u, r.body.updates)
  ELSE IF k = 13 THEN Search(u, r.q)
  ELSE UNCHANGED <<db, created, reply>>

\* the request r of user u to /api/transactions, handled by the first route
\* that takes it
ApiStep(u, r) ==
  /\ r.method = "POST" => Len(created) + (IF r.path = <<>> THEN 1 ELSE 2) <= MaxCreated
  /\ Handle(FirstRoute(r.method, r.path, 1), u, r)
  /\ UNCHANGED <<uploadState, page, users, userCategories, inflight>>

ApiRequest(u) == \E r \in ApiRequests(u) : ApiStep(u, r)

\* the lists a client sends to bulk-import: one transaction, with or without
\* a user field
ImportLists(u) == {<<ApiBody>>} \cup {<<WithUser(ApiBody, v)>> : v \in AllUsers \ {u}}

\* POST /api/upload/bulk-import of user u
ImportAs(u) ==
  /\ Len(created) < MaxCreated
  /\ \E transactions \in ImportLists(u) :
       /\ db' = db \o OwnedAll(SaveAll(transactions), u, Len(created) + 1)
       /\ created' = created \o Creators(u, Len(SaveAll(transactions)))
       /\ reply' = ImportReply(OwnedAll(SaveAll(transactions), u, Len(created) + 1), ImportErrors(transactions, 0))
  /\ UNCHANGED <<uploadState, page, users, userCategories, inflight>>

NextApi ==
  \/ \E u \in AllUsers : ApiRequest(u)
  \/ \E u \in AllUsers : ImportAs(u)

SpecApi == Init /\ [][NextApi]_vars

\* the route registered for exactly this method and path
OwnRoute(method, path) ==
  CHOOSE j \in 1..Len(Routes) : Routes[j] = [method |-> method, path |-> path]

\* the requests whose path is a route's own: GET /categories, GET /search,
\* PUT /bulk, DELETE /bulk
OwnPathRequests(u) ==
  {r \in ApiRequests(u) : r.method # "POST" /\ r.path \in {<<<<"c","a","t","e","g","o","r","i","e","s">>>>, <<<<"s","e","a","r","c","h">>>>, <<<<"b","u","l","k">>>>}}

\* C25: a request for GET /categories, GET /search, PUT /bulk or DELETE /bulk
\* is answered by the handler of the route registered under that path
C25_OwnHandlerAnswers ==
  [][\A u \in AllUsers : \A r \in OwnPathRequests(u) : ApiStep(u, r) => reply'.route = OwnRoute(r.method, r.path)]_vars

\* GET /categories, GET /search, PUT /bulk or DELETE /bulk was answered by
\* the handler of a route with a parameter: Transaction not found
C25_Witness ==
  /\ "route" \in DOMAIN reply
  /\ reply.route \in {3, 4, 5}
  /\ reply.status = 404
  /\ db = <<>>

\* the documents of user u
DocsOf(u) == SelectSeq(db, LAMBDA d : d.user = u)

\* the number under which the document of _id id was created
CreatedAs(id) == CHOOSE i \in 1..Len(Digits) : IdOf(i) = id

\* every document belongs to the user it was created for
CreatorsKept == \A i \in 1..Len(db) : db[i].user = created[CreatedAs(db[i]._id)]

\* C26: a request of a user leaves the transactions of every other user as
\* they are, and every transaction still belongs to the user who created it
C26_UserIsolation ==
  [][\A u \in AllUsers : (ApiRequest(u) \/ ImportAs(u)) => (CreatorsKept' /\ \A v \in AllUsers \ {u} : DocsOf(v)' = DocsOf(v))]_vars

\* a transaction belongs to a user who did not create it
C26_Witness == ~CreatorsKept

\* the lists the two import routes can be given after the answered upload
ImportCandidates ==
  IF pc = "responded" /\ res.status = 200 /\ res.type \in {"csv", "pdf"}
  THEN EditedList(res.transactions) \cup
       UNION {{PickFrom(ts, indices, 0) : indices \in SUBSET (0..Len(ts))} : ts \in EditedList(res.transactions)}
  ELSE {}

\* the candidate can be saved: it has the required fields and passes the
\* schema
Savable(t) == RequiredFields(t) /\ SchemaValid(t)

\* C27: an import of the candidates ts answers with imported + errors =
\* Len(ts), imported is the number of transactions the request stored, every
\* candidate that can be saved is stored, whatever stands before it, and
\* every other candidate is in errorDetails under its index
C27_ImportOneByOne ==
  [][\A ts \in ImportCandidates : (ts # <<>> /\ ImportStep(ts)) =>
       /\ reply'.imported + reply'.errors = Len(ts)
       /\ reply'.imported = Len(db') - Len(db)
       /\ SubSeq(db', 1, Len(db)) = db
       /\ \A i \in 1..Len(ts) :
            IF Savable(ts[i])
            THEN \E k \in (Len(db) + 1)..Len(db') : db'[k] = Stored(ts[i])
            ELSE \E k \in 1..Len(reply'.errorDetails) : reply'.errorDetails[k].index = i - 1]_vars

\* an import of two candidates whose first failed and whose second was saved
C27_Witness ==
  /\ reply.status = 200
  /\ "errorDetails" \in DOMAIN reply
  /\ reply.imported = 1
  /\ reply.errors = 1
  /\ reply.errorDetails[1].index = 0
  /\ Len(db) >= 1

\* C30: the N of the page's message 'Successfully imported N transactions!'
\* after a bulk import is the imported count of the answer to that import
C30_MessageCountsImported ==
  [][(PageBulkImport /\ reply'.status = 200) => page'.n = reply'.imported]_vars

\* the page says two transactions were imported, the answer says one
C30_Witness ==
  /\ page.success = "Successfully imported N transactions!"
  /\ page.n = 2
  /\ reply.status = 200
  /\ "imported" \in DOMAIN reply
  /\ reply.imported = 1
  /\ reply.errors = 1

(***************************************************************************)
(* routes/auth.js, DELETE /api/auth/account, beside requests of the same   *)
(* user that have passed auth: every await of a handler ends a step.       *)
(***************************************************************************)
\* the most requests in flight at a time
MaxInflight == 2

\* the request of kind kind of user u with the transactions todo not yet
\* saved, of which saved were saved
Flight(kind, u, todo, saved) == [kind |-> kind, user |-> u, todo |-> todo, saved |-> saved]

\* the lists a client sends to bulk-import while the account is deleted
AccountLists == {<<ApiBody>>, <<ApiBody, ApiBody>>}

\* POST /api/transactions up to await transaction.save(): auth finds the
\* user and the validators pass
CreateBegin(u) ==
  /\ u \in users
  /\ Cardinality(inflight) < MaxInflight
  /\ inflight' = inflight \cup {Flight("create", u, <<ApiBody>>, 0)}
  /\ UNCHANGED <<uploadState, db, reply, page, users, userCategories, created>>

\* POST /api/upload/bulk-import up to its first await transaction.save()
ImportBegin(u) ==
  /\ u \in users
  /\ Cardinality(inflight) < MaxInflight
  /\ \E transactions \in AccountLists : inflight' = inflight \cup {Flight("import", u, transactions, 0)}
  /\ UNCHANGED <<uploadState, db, reply, page, users, userCategories, created>>

\* what a create or an import in flight answers when nothing is left to save
FlightReply(r) ==
  IF r.kind = "create"
  THEN [status |-> 201, message |-> "Transaction created successfully", user |-> r.user]
  ELSE [status |-> 200, message |-> "Successfully imported transactions", imported |-> r.saved + 1, user |-> r.user]

\* await transaction.save() of a create or an import in flight: the document
\* is stored for req.user._id, whether the user still exists or not; after
\* the last one the request is answered
SaveOne(r) ==
  /\ r.kind \in {"create", "import"}
  /\ Len(created) < MaxCreated
  /\ db' = Append(db, OwnedBy(Stored(Head(r.todo)), r.user, IdOf(Len(created) + 1)))
  /\ created' = Append(created, r.user)
  /\ IF Len(r.todo) = 1
     THEN /\ inflight' = inflight \ {r}
          /\ reply' = FlightReply(r)
     ELSE /\ inflight' = (inflight \ {r}) \cup {Flight(r.kind, r.user, Tail(r.todo), r.saved + 1)}
          /\ UNCHANGED reply
  /\ UNCHANGED <<uploadState, page, users, userCategories>>

\* DELETE /api/auth/account up to await Transaction.deleteMany: auth finds
\* the user; a wrong password is answered 400
AccountBegin(u) ==
  /\ u \in users
  /\ Cardinality(inflight) < MaxInflight
  /\ \A r \in inflight : ~(r.user = u /\ r.kind \in {"deleteMany", "findByIdAndDelete"})
  /\ \E isMatch \in BOOLEAN :
       IF isMatch
       THEN /\ inflight' = inflight \cup {Flight("deleteMany", u, <<>>, 0)}
            /\ UNCHANGED reply
       ELSE /\ reply' = [status |-> 400, message |-> "Password is incorrect", user |-> u]
            /\ UNCHANGED inflight
  /\ UNCHANGED <<uploadState, db, page, users, userCategories, created>>

\* await Transaction.deleteMany({ user: user._id })
AccountDeleteMany(r) ==
  /\ r.kind = "deleteMany"
  /\ db' = SelectSeq(db, LAMBDA d : d.user # r.user)
  /\ inflight' = (inflight \ {r}) \cup {Flight("findByIdAndDelete", r.user, <<>>, 0)}
  /\ UNCHANGED <<uploadState, reply, page, users, userCategories, created>>

\* await User.findByIdAndDelete(user._id) and the answer
AccountDeleteUser(r) ==
  /\ r.kind = "findByIdAndDelete"
  /\ users' = users \ {r.user}
  /\ inflight' = inflight \ {r}
  /\ reply' = [status |-> 200, message |-> "Account deleted successfully", user |-> r.user]
  /\ UNCHANGED <<uploadState, db, page, userCategories, created>>

NextAccount ==
  \/ \E u \in AllUsers : CreateBegin(u)
  \/ \E u \in AllUsers : ImportBegin(u)
  \/ \E u \in AllUsers : AccountBegin(u)
  \/ \E r \in inflight : SaveOne(r)
  \/ \E r \in inflight : AccountDeleteMany(r)
  \/ \E r \in inflight : AccountDeleteUser(r)

SpecAccount == Init /\ [][NextAccount]_vars

\* C29: once the account of a user is deleted, no stored transaction is
\* owned by that user, whatever requests of the user were in flight
C29_NoTransactionOfDeletedUser ==
  \A u \in AllUsers \ users : \A k \in 1..Len(db) : db[k].user # u

\* the account of a user was deleted while a create of that user was in
\* flight, and the transaction was stored after it
C29_Witness ==
  /\ reply.status = 201
  /\ reply.user \notin users
  /\ \E k \in 1..Len(db) : db[k].user = reply.user

=============================================================================
